---- MODULE Spec2Model ----
(***************************************************************************)
(* Model of the project dashboard (Odoo module dashboard_projet):          *)
(*   src/models/dashboard.py              DashboardProjet ("dashboard.projet")*)
(*   src/controllers/dashboard_controller.py   DashboardController         *)
(*                                                                         *)
(* The record store (the Odoo tables the calculators read) is the state;   *)
(* every calculator is an operator over it, translated from its Python     *)
(* body, try/except included.  A request (an action) evaluates one entry   *)
(* point and leaves its answer in ret; Respond hands the answer back.      *)
(*                                                                         *)
(* Conventions.                                                            *)
(*  - Money is an integer number of currency units.                        *)
(*  - A rate (taux_marge, taux_marge_admin) is an integer number of        *)
(*    hundredths of a percent: 6667 stands for 66.67.                      *)
(*  - A date is a day number 1..MaxDay; 0 is Python's None/False.          *)
(*  - A text that the code searches in (str(dict), account code, account   *)
(*    name) is a sequence of one-character strings.                        *)
(*  - A call result is [exc, value]: exc = TRUE when an exception leaves   *)
(*    the call.                                                            *)
(***************************************************************************)
EXTENDS Integers, Sequences, FiniteSets, TLC

\* ------------------------------------------------------------------ bounds
\* Days of the calendar the records and the requested ranges are drawn from.
MaxDay == 2
\* Largest number of records drawn into one table of the record store.
MaxRecs == 2

\* --------------------------------------------------------------- constants
\* project.project search limit
ProjectLimit == 500

VARIABLES
    env,                    \* names of the models installed (self.env)
    schema,                 \* <<model, field>> pairs that exist (_fields)
    broken,                 \* models whose queries raise (store failure)
    account_move,           \* invoices and journal entries
    account_move_line,      \* invoice lines / ledger lines
    account_account,        \* chart of accounts
    account_analytic_line,  \* timesheet-like cost entries
    project_project,        \* projects
    call,                   \* the request being answered
    ret,                    \* its answer, [exc, value]
    requests                \* call frames of the dashboard requests in progress

store == <<env, schema, broken, account_move, account_move_line,
           account_account, account_analytic_line, project_project>>
vars == <<env, schema, broken, account_move, account_move_line,
          account_account, account_analytic_line, project_project, call, ret,
          requests>>

\* ------------------------------------------------------------ Python values
None == 0

Ok(v) == [exc |-> FALSE, value |-> v]
Raise == [exc |-> TRUE, value |-> 0]

Max(a, b) == IF a >= b THEN a ELSE b
Abs(x) == IF x < 0 THEN -x ELSE x

RECURSIVE SumSeq(_)
SumSeq(s) == IF s = <<>> THEN 0 ELSE Head(s) + SumSeq(Tail(s))

\* round(n / d, 0) for d > 0, ties to even, as Python's round()
RoundDiv(n, d) ==
    LET q == n \div d
        r == n % d
    IN  IF 2 * r < d THEN q
        ELSE IF 2 * r > d THEN q + 1
        ELSE IF q % 2 = 0 THEN q ELSE q + 1

\* ------------------------------------------------------------------- texts
DigitChars == <<"0", "1", "2", "3", "4", "5", "6", "7", "8", "9">>

\* str(n) for an integer n >= 0
RECURSIVE StrNat(_)
StrNat(n) ==
    IF n < 10 THEN <<DigitChars[n + 1]>>
    ELSE StrNat(n \div 10) \o <<DigitChars[(n % 10) + 1]>>

\* str(x) for a float x with an integral value: 100.0
StrFloat(n) == StrNat(n) \o <<".", "0">>

\* needle in hay (Python's substring test)
Contains(hay, needle) ==
    \E i \in 0..(Len(hay) - Len(needle)) :
        SubSeq(hay, i + 1, i + Len(needle)) = needle

\* str(d) for a dict d = {'k': v, ...} given as a sequence of [key, pct]
RECURSIVE StrDictItems(_)
StrDictItems(items) ==
    IF items = <<>> THEN <<>>
    ELSE <<"'">> \o StrNat(Head(items).key) \o <<"'", ":", " ">>
         \o StrFloat(Head(items).pct)
         \o (IF Tail(items) = <<>> THEN <<>>
             ELSE <<",", " ">> \o StrDictItems(Tail(items)))

StrDict(items) == <<"{">> \o StrDictItems(items) \o <<"}">>

LowerChar(c) ==
    CASE c = "A" -> "a" [] c = "B" -> "b" [] c = "C" -> "c" [] c = "D" -> "d"
      [] c = "F" -> "f" [] c = "M" -> "m" [] c = "V" -> "v"
      [] OTHER -> c

Lower(s) == [i \in 1..Len(s) |-> LowerChar(s[i])]

\* SQL: s LIKE p, with % for any text and _ for any one character
RECURSIVE SqlLike(_, _)
SqlLike(s, p) ==
    IF p = <<>> THEN s = <<>>
    ELSE IF Head(p) = "%"
         THEN SqlLike(s, Tail(p)) \/ (s # <<>> /\ SqlLike(Tail(s), p))
    ELSE IF Head(p) = "_"
         THEN s # <<>> /\ SqlLike(Tail(s), Tail(p))
    ELSE s # <<>> /\ Head(s) = Head(p) /\ SqlLike(Tail(s), Tail(p))

\* the ORM's domain operators: (field, 'like', v) is field LIKE '%v%',
\* (field, 'ilike', v) is field ILIKE '%v%'
OrmLike(s, v) == SqlLike(s, <<"%">> \o v \o <<"%">>)
OrmILike(s, v) == SqlLike(Lower(s), Lower(<<"%">> \o v \o <<"%">>))

\* ------------------------------------------------------------ record store
Models == {"account.move", "account.move.line", "account.account",
           "account.analytic.line", "project.project", "dashboard.projet"}

_model_exists(model_name) == model_name \in env

\* a schema in which no field is found
NoField(model_name, field_name) == FALSE

_field_exists(model_name, field_name) ==
    _model_exists(model_name) /\ <<model_name, field_name>> \in schema

\* self.env[model].search(domain): KeyError when the model is not installed,
\* an exception when the store fails, else the records of the table that
\* match the domain, in id order
Search(model_name, matching) ==
    IF model_name \notin env THEN Raise
    ELSE IF model_name \in broken THEN Raise
    ELSE Ok(matching)

\* a bound that leaves its own day out
DateAfter(field, d) == field # None /\ field > d

\* a date field that only has to be set
DateSet(field, d) == field # None

\* ('date', '>=', d) and ('date', '<=', d): a record without date never matches
DateGE(field, d) == field # None /\ field >= d
DateLE(field, d) == field # None /\ field <= d

\* ------------------------------------------------------------------- dates
\* A date argument as the caller passes it: None, a text (the ISO text of a
\* day, or malformed) or a date object.
RawNone == [kind |-> "none", iso |-> FALSE, day |-> 0]
RawBad == [kind |-> "str", iso |-> FALSE, day |-> 0]
RawIso(d) == [kind |-> "str", iso |-> TRUE, day |-> d]
RawDate(d) == [kind |-> "date", iso |-> FALSE, day |-> d]

Truthy(raw) == raw.kind # "none"

\* a truthy value that is neither a text nor a date, as _parse_date hands it
\* back
NotADate == -1

\* fields.Date.from_string raises ValueError on a malformed text; a value
\* that is no text is returned as it is
_parse_date(date_input) ==
    IF ~Truthy(date_input) THEN None
    ELSE IF date_input.kind = "str"
         THEN (IF date_input.iso THEN date_input.day ELSE None)
    ELSE IF date_input.kind = "date" THEN date_input.day
    ELSE NotADate

\* a parsed date (None or a day) handed on as an argument
AsArg(d) == IF d = None THEN RawNone ELSE RawDate(d)

\* ------------------------------------------------------ revenue calculator
\* an invoice without filter on its amount
AnyAmount(facture) == TRUE

\* if facture.amount_total_signed and facture.amount_total_signed > 0
IsRevenue(facture) ==
    facture.amount_total_signed # 0 /\ facture.amount_total_signed > 0

\* DashboardProjet.get_chiffre_affaires: portfolio revenue
get_chiffre_affaires(date_debut, date_fin) ==
    LET d1 == IF Truthy(date_debut) THEN _parse_date(date_debut) ELSE None
        d2 == IF Truthy(date_fin) THEN _parse_date(date_fin) ELSE None
        body ==
            IF _model_exists("account.move")
            THEN LET factures == Search("account.move", SelectSeq(account_move,
                        LAMBDA m : /\ m.state = "posted"
                                   /\ m.move_type = "out_invoice"
                                   /\ (d1 # None => DateGE(m.invoice_date, d1))
                                   /\ (d2 # None => DateLE(m.invoice_date, d2))))
                 IN  IF factures.exc THEN Raise
                     ELSE LET kept == SelectSeq(factures.value, IsRevenue)
                              ca_factures == SumSeq(
                                  [i \in 1..Len(kept) |-> kept[i].amount_total_signed])
                          IN  Ok(Max(0, ca_factures))
            ELSE Ok(0)
    IN  IF body.exc THEN Ok(0) ELSE body

\* whether the project's analytic account is found in the line's distribution:
\* str(projet.analytic_account_id.id) in str(ligne.analytic_distribution)
InDistribution(analytic_id, distribution) ==
    Contains(StrDict(distribution), StrNat(analytic_id))

\* the line's analytic account in the schema that precedes analytic_distribution
LegacyAnalyticAccount(ligne) ==
    IF ligne.analytic_distribution = <<>> THEN None
    ELSE ligne.analytic_distribution[1].key

\* DashboardProjet._get_ca_projet_optimized: revenue of one project
\* (date_debut, date_fin: None or a day, as parsed by the caller)
_get_ca_projet_optimized(projet, date_debut, date_fin) ==
    LET MoveOf(l) == account_move[l.move_id]
        body ==
            IF /\ _model_exists("account.move.line")
               /\ <<"project.project", "analytic_account_id">> \in schema
               /\ projet.analytic_account_id # None
            THEN
              IF _field_exists("account.move.line", "analytic_distribution")
              THEN
                LET found == Search("account.move.line", SelectSeq(account_move_line,
                        LAMBDA l : /\ MoveOf(l).state = "posted"
                                   /\ MoveOf(l).move_type = "out_invoice"
                                   /\ l.analytic_distribution # <<>>))
                IN  IF found.exc THEN Raise
                    \* False >= date is a TypeError
                    ELSE IF /\ (date_debut # None \/ date_fin # None)
                            /\ \E i \in 1..Len(found.value) :
                                   MoveOf(found.value[i]).invoice_date = None
                    THEN Raise
                    ELSE
                      LET l1 == IF date_debut # None
                                THEN SelectSeq(found.value,
                                       LAMBDA l : MoveOf(l).invoice_date >= date_debut)
                                ELSE found.value
                          l2 == IF date_fin # None
                                THEN SelectSeq(l1,
                                       LAMBDA l : MoveOf(l).invoice_date <= date_fin)
                                ELSE l1
                          hits == SelectSeq(l2,
                                    LAMBDA l : /\ l.analytic_distribution # <<>>
                                               /\ InDistribution(
                                                    projet.analytic_account_id,
                                                    l.analytic_distribution))
                      IN  Ok(SumSeq([i \in 1..Len(hits) |-> hits[i].price_subtotal]))
              ELSE IF _field_exists("account.move.line", "analytic_account_id")
              THEN
                LET lignes == Search("account.move.line", SelectSeq(account_move_line,
                        LAMBDA l : /\ MoveOf(l).state = "posted"
                                   /\ MoveOf(l).move_type = "out_invoice"
                                   /\ LegacyAnalyticAccount(l)
                                        = projet.analytic_account_id
                                   /\ (date_debut # None =>
                                        DateGE(MoveOf(l).invoice_date, date_debut))
                                   /\ (date_fin # None =>
                                        DateLE(MoveOf(l).invoice_date, date_fin))))
                IN  IF lignes.exc THEN Raise
                    ELSE LET kept == SelectSeq(lignes.value,
                                               LAMBDA l : l.price_subtotal # 0)
                         IN  Ok(SumSeq([i \in 1..Len(kept) |->
                                          kept[i].price_subtotal]))
              ELSE Ok(0)
            ELSE Ok(0)
    IN  IF body.exc THEN Ok(0) ELSE body

\* a count of entries, not of staff
NbEntries(projet) ==
    Ok(Len(SelectSeq(account_analytic_line,
                     LAMBDA ts : /\ ts.project_id = projet.id
                                 /\ ts.employee_id # None)))

\* ----------------------------------------------------- staffing calculator
\* DashboardProjet._get_nb_personnes_projet: head count, over all time
_get_nb_personnes_projet(projet) ==
    LET body ==
            IF _model_exists("account.analytic.line")
            THEN LET timesheets == Search("account.analytic.line",
                        SelectSeq(account_analytic_line,
                        LAMBDA ts : /\ ts.project_id = projet.id
                                    /\ ts.employee_id # None))
                 IN  IF timesheets.exc THEN Raise
                     ELSE Ok(Cardinality({timesheets.value[i].employee_id :
                                            i \in 1..Len(timesheets.value)}))
            ELSE Ok(0)
    IN  IF body.exc THEN Ok(0) ELSE body

\* DashboardProjet._get_heures_projet: hours within the range
_get_heures_projet(projet, date_debut, date_fin) ==
    LET body ==
            IF ~_model_exists("account.analytic.line") THEN Ok(0)
            ELSE LET timesheets == Search("account.analytic.line",
                        SelectSeq(account_analytic_line,
                        LAMBDA ts : /\ ts.project_id = projet.id
                                    /\ (date_debut # None => DateGE(ts.date, date_debut))
                                    /\ (date_fin # None => DateLE(ts.date, date_fin))))
                 IN  IF timesheets.exc THEN Raise
                     ELSE LET kept == SelectSeq(timesheets.value,
                                                LAMBDA ts : ts.unit_amount # 0)
                          IN  Ok(SumSeq([i \in 1..Len(kept) |-> kept[i].unit_amount]))
    IN  IF body.exc THEN Ok(0) ELSE body

\* DashboardProjet._get_stage_projet: status label
_get_stage_projet(projet) ==
    IF <<"project.project", "last_update_status">> \in schema
    THEN CASE projet.last_update_status = "on_track" -> "En bonne voie"
           [] projet.last_update_status = "at_risk" -> "En danger"
           [] projet.last_update_status = "off_track" -> "En retard"
           [] projet.last_update_status = "on_hold" -> "En attente"
           [] projet.last_update_status = "done" -> "Fait"
           [] projet.last_update_status = "to_define" -> "À définir"
           [] OTHER -> projet.last_update_status
    ELSE "Actif"

\* projet.name or f'Projet {projet.id}'
ProjetName(projet) ==
    IF projet.name # "" THEN projet.name ELSE "Projet " \o ToString(projet.id)

\* --------------------------------------------------------- cost calculator
\* the amount of the entry with its sign
CoutLigneSigned(ts) == ts.amount

\* every amount taken as a cost
CoutLigneAnySign(ts) == Abs(ts.amount)

\* the cost of one entry: |amount| when the amount is negative
CoutLigne(ts) == IF ts.amount < 0 THEN Abs(ts.amount) ELSE 0

\* DashboardProjet._get_cout_salarial_projet: staffing cost of one project
_get_cout_salarial_projet(projet, date_debut, date_fin) ==
    LET body ==
            IF ~_model_exists("account.analytic.line") THEN Ok(0)
            ELSE LET timesheets == Search("account.analytic.line",
                        SelectSeq(account_analytic_line,
                        LAMBDA ts : /\ ts.project_id = projet.id
                                    /\ (date_debut # None => DateGE(ts.date, date_debut))
                                    /\ (date_fin # None => DateLE(ts.date, date_fin))))
                 IN  IF timesheets.exc THEN Raise
                     ELSE Ok(SumSeq([i \in 1..Len(timesheets.value) |->
                                       CoutLigne(timesheets.value[i])]))
    IN  IF body.exc THEN Ok(0) ELSE body

\* the account search of _get_cout_administratif:
\* code like '6%' or name ilike admin / frais généraux / direction / management
IsCompteAdmin(compte) ==
    \/ OrmLike(compte.code, <<"6", "%">>)
    \/ OrmILike(compte.name, <<"a", "d", "m", "i", "n">>)
    \/ OrmILike(compte.name, <<"f", "r", "a", "i", "s", " ",
                               "g", "é", "n", "é", "r", "a", "u", "x">>)
    \/ OrmILike(compte.name, <<"d", "i", "r", "e", "c", "t", "i", "o", "n">>)
    \/ OrmILike(compte.name, <<"m", "a", "n", "a", "g", "e", "m", "e", "n", "t">>)

\* DashboardProjet._get_cout_administratif: administrative cost
_get_cout_administratif(date_debut, date_fin) ==
    LET d1 == _parse_date(date_debut)
        d2 == _parse_date(date_fin)
        MoveOf(l) == account_move[l.move_id]
        body ==
            IF _model_exists("account.move.line")
            THEN
              IF _model_exists("account.account")
              THEN
                LET comptes_admin == Search("account.account", SelectSeq(account_account,
                                            IsCompteAdmin))
                IN  IF comptes_admin.exc THEN Raise
                    ELSE IF comptes_admin.value = <<>> THEN Ok(0)
                    ELSE
                      LET ids == {comptes_admin.value[i].id :
                                    i \in 1..Len(comptes_admin.value)}
                          lignes_charges == Search("account.move.line",
                              SelectSeq(account_move_line,
                              LAMBDA l : /\ l.account_id \in ids
                                         /\ MoveOf(l).state = "posted"
                                         /\ (d1 # None => DateGE(MoveOf(l).date, d1))
                                         /\ (d2 # None => DateLE(MoveOf(l).date, d2))))
                      IN  IF lignes_charges.exc THEN Raise
                          ELSE Ok(SumSeq([i \in 1..Len(lignes_charges.value) |->
                                    Abs(lignes_charges.value[i].debit
                                        - lignes_charges.value[i].credit)]))
              ELSE Ok(0)
            ELSE Ok(0)
    IN  IF body.exc THEN Ok(0) ELSE body

\* ------------------------------------------------------- margin calculator
\* a rate computed whenever revenus is not zero
TauxMargeNonZero(marge, revenus) ==
    IF revenus > 0 THEN RoundDiv(marge * 10000, revenus)
    ELSE IF revenus < 0 THEN RoundDiv(-(marge * 10000), -revenus)
    ELSE 0

\* (marge / revenus * 100) if revenus > 0 else 0, rounded to 2 decimals
TauxMarge(marge, revenus) ==
    IF revenus > 0 THEN RoundDiv(marge * 10000, revenus) ELSE 0

\* operands swapped
MargeSwapped(revenus, cout) == cout - revenus

\* revenus - cout
Marge(revenus, cout) == revenus - cout

\* DashboardProjet._get_empty_marge
_get_empty_marge ==
    [revenus |-> 0, cout_salarial |-> 0, marge |-> 0, taux_marge |-> 0]

\* a margin that raises for a project it does not find
MargeOfKnownProjet(projet_id, date_debut, date_fin) ==
    IF \E i \in DOMAIN project_project : project_project[i].id = projet_id
    THEN Ok(_get_empty_marge)
    ELSE Raise

\* DashboardProjet.get_marge_salariale_projet: margin of one project
get_marge_salariale_projet(projet_id, date_debut, date_fin) ==
    LET body ==
            IF projet_id = 0 THEN Ok(_get_empty_marge)
            ELSE
              \* browse(projet_id).exists(): archived projects included
              LET found == Search("project.project", SelectSeq(project_project,
                                  LAMBDA p : p.id = projet_id))
              IN  IF found.exc THEN Raise
                  ELSE IF found.value = <<>> THEN Ok(_get_empty_marge)
                  ELSE
                    LET projet == found.value[1]
                        d1 == _parse_date(date_debut)
                        d2 == _parse_date(date_fin)
                        revenus == _get_ca_projet_optimized(projet, d1, d2).value
                        cout_salarial ==
                            _get_cout_salarial_projet(projet, d1, d2).value
                        marge == Marge(revenus, cout_salarial)
                    IN  Ok([revenus |-> revenus,
                            cout_salarial |-> cout_salarial,
                            marge |-> marge,
                            taux_marge |-> TauxMarge(marge, revenus)])
    IN  IF body.exc THEN Ok(_get_empty_marge) ELSE body

ZeroMargeAdmin ==
    [ca_total |-> 0, cout_admin |-> 0, marge_admin |-> 0, taux_marge_admin |-> 0]

\* a margin whose revenue is taken over all time
MargeAdminAllTime(date_debut, date_fin, fault) ==
    LET ca_total == get_chiffre_affaires(RawNone, RawNone).value
        cout_admin == _get_cout_administratif(date_debut, date_fin).value
    IN  Ok([ca_total |-> ca_total, cout_admin |-> cout_admin,
            marge_admin |-> Marge(ca_total, cout_admin),
            taux_marge_admin |-> TauxMarge(Marge(ca_total, cout_admin), ca_total)])

\* DashboardProjet.get_marge_administrative: portfolio margin.
\* fault = TRUE: the computation throws inside the try block.
get_marge_administrative(date_debut, date_fin, fault) ==
    LET body ==
            IF fault THEN Raise
            ELSE
              LET ca_total == get_chiffre_affaires(date_debut, date_fin).value
                  cout_admin == _get_cout_administratif(date_debut, date_fin).value
                  marge_admin == Marge(ca_total, cout_admin)
              IN  Ok([ca_total |-> ca_total,
                      cout_admin |-> cout_admin,
                      marge_admin |-> marge_admin,
                      taux_marge_admin |-> TauxMarge(marge_admin, ca_total)])
    IN  IF body.exc THEN Ok(ZeroMargeAdmin) ELSE body

\* ---------------------------------------------------- project summaries
\* a list that is not cut
Unlimited(s, n) == s

\* projets[:500], the effect of search(domain, limit=500)
Limited(s, n) == IF Len(s) > n THEN SubSeq(s, 1, n) ELSE s

\* one entry of get_projets_data
ProjetInfo(projet, date_debut, date_fin) ==
    [id |-> projet.id,
     name |-> ProjetName(projet),
     ca |-> _get_ca_projet_optimized(projet, date_debut, date_fin).value,
     nb_personnes |-> _get_nb_personnes_projet(projet).value,
     heures |-> _get_heures_projet(projet, date_debut, date_fin).value,
     stage |-> _get_stage_projet(projet),
     marge_data |-> "None"]

\* the entry appended by the except clause of the loop
ErrorInfo(projet) ==
    [id |-> projet.id, name |-> ProjetName(projet), ca |-> 0,
     nb_personnes |-> 0, heures |-> 0, stage |-> "Erreur",
     marge_data |-> "None"]

\* one failure that spoils every entry
ProjetEntrySpoiled(projet, date_debut, date_fin, failing) ==
    IF failing # {} THEN ErrorInfo(projet)
    ELSE ProjetInfo(projet, date_debut, date_fin)

\* the try block of the loop; failing: the ids of the projects whose summary
\* throws while it is built (a simulated failure)
ProjetEntry(projet, date_debut, date_fin, failing) ==
    IF projet.id \in failing THEN ErrorInfo(projet)
    ELSE ProjetInfo(projet, date_debut, date_fin)

\* DashboardProjet.get_projets_data with failures in the loop
get_projets_data_failing(date_debut, date_fin, failing) ==
    LET body ==
            IF ~_model_exists("project.project") THEN Ok(<<>>)
            ELSE
              LET d1 == _parse_date(date_debut)
                  d2 == _parse_date(date_fin)
                  projets == Search("project.project", SelectSeq(project_project,
                      LAMBDA p :
                        /\ (_field_exists("project.project", "active") => p.active)
                        /\ ((d1 # None /\ _field_exists("project.project", "date_start"))
                               => DateGE(p.date_start, d1))
                        /\ ((d2 # None /\ _field_exists("project.project", "date"))
                               => DateLE(p.date, d2))))
              IN  IF projets.exc THEN Raise
                  ELSE LET kept == Limited(projets.value, ProjectLimit)
                       IN  Ok([i \in 1..Len(kept) |->
                                  ProjetEntry(kept[i], d1, d2, failing)])
    IN  IF body.exc THEN Ok(<<>>) ELSE body

\* DashboardProjet.get_projets_data: the active projects and their figures
get_projets_data(date_debut, date_fin) ==
    get_projets_data_failing(date_debut, date_fin, {})

\* ------------------------------------------------------ budget comparator
\* The controller calls dashboard.projet.get_budget_comparison, which
\* models/dashboard.py does not define; its contract is section 4.5 and the
\* BudgetSummary entity of the specification.

\* the declared budget of a project
Budget(projet) == IF "budget" \in DOMAIN projet THEN projet.budget ELSE 0

\* a floor that is not applied
RemainingUnfloored(planned, realized) == planned - realized

\* remaining = max(0, planned - realized)
Remaining(planned, realized) == Max(0, planned - realized)

\* utilizationPct = realized / planned x 100 if planned > 0 else 0, in
\* hundredths of a percent like the other rates
UtilizationPct(realized, planned) ==
    IF planned > 0 THEN RoundDiv(realized * 10000, planned) ELSE 0

\* one entry of perProjectBreakdown; consumed is the realized revenue of the
\* project over the range, as the revenue calculator gives it
BudgetEntry(projet, date_debut, date_fin) ==
    LET consomme == _get_ca_projet_optimized(projet, date_debut, date_fin).value
    IN  [id |-> projet.id, name |-> projet.name,
         budget_prevu |-> Budget(projet), budget_consomme |-> consomme,
         utilizationPct |-> UtilizationPct(consomme, Budget(projet)),
         remaining |-> Remaining(Budget(projet), consomme)]

\* BudgetSummary of the given totals and entries, under the keys the
\* controller declares; ecart_budget is the gap left between the two totals
BudgetSummary(total, consomme, entries) ==
    [budget_total |-> total, budget_consomme |-> consomme,
     ecart_budget |-> Remaining(total, consomme),
     remaining |-> Remaining(total, consomme),
     utilizationPct |-> UtilizationPct(consomme, total),
     projets_budget |-> entries]

\* computeBudgetSummary(range): the projects with a positive declared budget;
\* a missing or failing record source gives the zero summary
get_budget_comparison(date_debut, date_fin) ==
    LET found == IF _model_exists("project.project")
                 THEN Search("project.project",
                             SelectSeq(project_project, LAMBDA p : Budget(p) > 0))
                 ELSE Ok(<<>>)
        projets == IF found.exc THEN <<>> ELSE found.value
        entries == [i \in 1..Len(projets) |->
                      BudgetEntry(projets[i], _parse_date(date_debut),
                                  _parse_date(date_fin))]
    IN  Ok(BudgetSummary(
              SumSeq([i \in 1..Len(entries) |-> entries[i].budget_prevu]),
              SumSeq([i \in 1..Len(entries) |-> entries[i].budget_consomme]),
              entries))

\* ---------------------------------------------------- dashboard aggregator
\* The sections of get_dashboard_data.  A fault names the section whose call
\* throws (a simulated failure): "ca", "projets", "marge_admin" throw at the
\* call in get_dashboard_data, "marge_admin_inner" throws inside the try block
\* of get_marge_administrative.
Faults == {"none", "ca", "projets", "marge_admin", "marge_admin_inner"}

DefaultResult ==
    [chiffre_affaires |-> 0, projets |-> <<>>,
     marge_administrative |-> ZeroMargeAdmin]

\* one try block around the three sections: the first failure ends the
\* computation with the default result
get_dashboard_data_one_try(date_debut, date_fin, fault) ==
    IF fault \in {"ca", "projets", "marge_admin"} THEN Ok(DefaultResult)
    ELSE Ok([chiffre_affaires |-> get_chiffre_affaires(date_debut, date_fin).value,
             projets |-> get_projets_data(date_debut, date_fin).value,
             marge_administrative |->
                get_marge_administrative(date_debut, date_fin,
                                         fault = "marge_admin_inner").value])

\* DashboardProjet.get_dashboard_data: result starts as the default and each
\* section is assigned in a try block of its own; a section that throws keeps
\* its default.  Nothing else in the outer try block can throw.
get_dashboard_data(date_debut, date_fin, fault) ==
    LET ca == IF fault = "ca" THEN Raise
              ELSE get_chiffre_affaires(date_debut, date_fin)
        projets == IF fault = "projets" THEN Raise
                   ELSE get_projets_data(date_debut, date_fin)
        marge == IF fault = "marge_admin" THEN Raise
                 ELSE get_marge_administrative(date_debut, date_fin,
                                               fault = "marge_admin_inner")
    IN  Ok([chiffre_affaires |->
               IF ca.exc THEN DefaultResult.chiffre_affaires ELSE ca.value,
            projets |->
               IF projets.exc THEN DefaultResult.projets ELSE projets.value,
            marge_administrative |->
               IF marge.exc THEN DefaultResult.marge_administrative
               ELSE marge.value])

\* --------------------------------------------------------------- controller
\* DashboardController._validate_date: strptime raises ValueError on a
\* malformed text (caught) and TypeError on a value that is no text
_validate_date(date_str) ==
    IF ~Truthy(date_str) THEN Ok(RawNone)
    ELSE IF date_str.kind = "str"
         THEN (IF date_str.iso THEN Ok(date_str) ELSE Ok(RawNone))
    ELSE Raise

\* x or 0
OrZero(x) == IF x = 0 THEN 0 ELSE x

\* DashboardController._default_dashboard_data
_default_dashboard_data ==
    [chiffre_affaires |-> 0, projets |-> <<>>,
     marge_administrative |-> ZeroMargeAdmin,
     budget_comparison |->
        [budget_total |-> 0, budget_consomme |-> 0, ecart_budget |-> 0]]

\* DashboardController._error_response(message, include_default=True)
ErrorResponseWithDefault(message) ==
    [error |-> message] @@ _default_dashboard_data

\* DashboardController._ensure_valid_response, for the dict the model returns
\* (which has no budget_comparison key)
_ensure_valid_response(data) ==
    [chiffre_affaires |-> OrZero(data.chiffre_affaires),
     projets |-> data.projets,
     marge_administrative |->
        [ca_total |-> OrZero(data.marge_administrative.ca_total),
         cout_admin |-> OrZero(data.marge_administrative.cout_admin),
         marge_admin |-> OrZero(data.marge_administrative.marge_admin),
         taux_marge_admin |-> OrZero(data.marge_administrative.taux_marge_admin)],
     budget_comparison |->
        [budget_total |-> 0, budget_consomme |-> 0, ecart_budget |-> 0]]

\* DashboardController.get_dashboard_data (route /dashboard_projet/data,
\* auth='user': request.env.user is set)
Controller_get_dashboard_data(date_debut, date_fin) ==
    IF "dashboard.projet" \notin env THEN Ok(_default_dashboard_data)
    \* a TypeError of _validate_date reaches the except clause of the route
    ELSE IF _validate_date(date_debut).exc \/ _validate_date(date_fin).exc
         THEN Ok(ErrorResponseWithDefault("Erreur serveur"))
    \* the model's get_dashboard_data returns in every case
    ELSE Ok(_ensure_valid_response(
                get_dashboard_data(_validate_date(date_debut).value,
                                   _validate_date(date_fin).value, "none").value))

\* DashboardController._default_marge_data
_default_marge_data ==
    [revenus |-> 0, cout_salarial |-> 0, marge |-> 0, taux_marge |-> 0]

\* DashboardController._error_response(message, default_marge=True)
ErrorResponseWithMarge(message) ==
    [error |-> message] @@ _default_marge_data

\* DashboardController._ensure_valid_marge, for the dict the model returns
_ensure_valid_marge(data) ==
    [revenus |-> OrZero(data.revenus),
     cout_salarial |-> OrZero(data.cout_salarial),
     marge |-> OrZero(data.marge),
     taux_marge |-> OrZero(data.taux_marge)]

\* DashboardController.get_projet_marge (route
\* /dashboard_projet/projet_marge/<int:projet_id>, auth='user')
Controller_get_projet_marge(projet_id, date_debut, date_fin) ==
    \* if not projet_id or projet_id <= 0
    IF projet_id = 0 \/ projet_id <= 0 THEN Ok(_default_marge_data)
    ELSE IF "dashboard.projet" \notin env THEN Ok(_default_marge_data)
    \* a TypeError of _validate_date reaches the except clause of the route
    ELSE IF _validate_date(date_debut).exc \/ _validate_date(date_fin).exc
         THEN Ok(ErrorResponseWithMarge("Erreur serveur"))
    ELSE LET result == get_marge_salariale_projet(projet_id,
                           _validate_date(date_debut).value,
                           _validate_date(date_fin).value)
         IN  IF result.exc THEN Ok(ErrorResponseWithMarge("Erreur serveur"))
             ELSE Ok(_ensure_valid_marge(result.value))

\* the formats of /dashboard_projet/export
Formats == {"json", "csv", "xml"}

\* DashboardController.export_dashboard (route /dashboard_projet/export,
\* auth='user'): the dates go to the model as they are received
Controller_export_dashboard(date_debut, date_fin, format) ==
    IF "dashboard.projet" \notin env
    THEN Ok([status |-> 500, format |-> format, data |-> <<>>])
    ELSE IF format \in {"json", "csv"}
    THEN Ok([status |-> 200, format |-> format,
             data |-> get_dashboard_data(date_debut, date_fin, "none").value])
    ELSE Ok([status |-> 400, format |-> format, data |-> <<>>])

\* DashboardController._default_budget_data
_default_budget_data ==
    [budget_total |-> 0, budget_consomme |-> 0, ecart_budget |-> 0,
     projets_budget |-> <<>>]

\* DashboardController._error_response(message): the message alone
_error_response(message) == [error |-> message]

\* DashboardController.get_budget_data (route /dashboard_projet/budget_data,
\* auth='user'): the result of the model is returned as it is
Controller_get_budget_data(date_debut, date_fin) ==
    IF "dashboard.projet" \notin env THEN Ok(_default_budget_data)
    \* a TypeError of _validate_date reaches the except clause of the route
    ELSE IF _validate_date(date_debut).exc \/ _validate_date(date_fin).exc
         THEN Ok(_error_response("Erreur serveur"))
    ELSE Ok(get_budget_comparison(_validate_date(date_debut).value,
                                  _validate_date(date_fin).value).value)

\* ------------------------------------------------------------ PDF charts
\* projet.get('stage', 'Non défini')
StageOf(projet) ==
    IF "stage" \in DOMAIN projet THEN projet.stage ELSE "Non défini"

\* a new label put before the others
StagesPrepend(stages, stage) ==
    IF \E i \in 1..Len(stages) : stages[i].key = stage
    THEN [i \in 1..Len(stages) |->
            IF stages[i].key = stage
            THEN [key |-> stage, count |-> stages[i].count + 1] ELSE stages[i]]
    ELSE <<[key |-> stage, count |-> 1]>> \o stages

\* stages[stage] = stages.get(stage, 0) + 1 on a dict, which keeps its keys in
\* the order of their insertion
StagesAdd(stages, stage) ==
    IF \E i \in 1..Len(stages) : stages[i].key = stage
    THEN [i \in 1..Len(stages) |->
            IF stages[i].key = stage
            THEN [key |-> stage, count |-> stages[i].count + 1] ELSE stages[i]]
    ELSE Append(stages, [key |-> stage, count |-> 1])

\* the loop over data['projets']
RECURSIVE StagesOf(_)
StagesOf(projets) ==
    IF projets = <<>> THEN <<>>
    ELSE StagesAdd(StagesOf(SubSeq(projets, 1, Len(projets) - 1)),
                   StageOf(projets[Len(projets)]))

\* DashboardController._add_charts_section: the pie of the projects by
\* status, drawn when there is a project
_add_charts_section(data) ==
    LET stages == StagesOf(data.projets)
    IN  [drawn |-> stages # <<>>,
         labels |-> [i \in 1..Len(stages) |-> stages[i].key],
         data |-> [i \in 1..Len(stages) |-> stages[i].count]]

\* ------------------------------------------------- record stores explored
\* A model that is not installed has no table, hence no record.
Days == 1..MaxDay

SeqsUpTo(S, n) == UNION {[1..k -> S] : k \in 0..n}

\* An accounting document: one account.move with its single line.
Doc(state, move_type, day, total, account_id, debit, credit, dist, subtotal) ==
    [state |-> state, move_type |-> move_type, day |-> day, total |-> total,
     account_id |-> account_id, debit |-> debit, credit |-> credit,
     dist |-> dist, subtotal |-> subtotal]

\* the account.move rows of a sequence of documents; a journal entry has no
\* invoice date, an invoice is booked on its invoice date
MovesOf(docs) ==
    [i \in 1..Len(docs) |->
        [id |-> i, state |-> docs[i].state, move_type |-> docs[i].move_type,
         invoice_date |-> IF docs[i].move_type = "entry" THEN None ELSE docs[i].day,
         date |-> docs[i].day,
         amount_total_signed |-> docs[i].total]]

\* the account.move.line rows of a sequence of documents
LinesOf(docs) ==
    [i \in 1..Len(docs) |->
        [id |-> i, move_id |-> i, account_id |-> docs[i].account_id,
         debit |-> docs[i].debit, credit |-> docs[i].credit,
         analytic_distribution |-> docs[i].dist,
         price_subtotal |-> docs[i].subtotal]]

\* analytic distribution {'a': 100.0}
Dist(a) == <<[key |-> a, pct |-> 100]>>

Compte(id, code, name) == [id |-> id, code |-> StrNat(code), name |-> name]

\* chart of accounts: purchases (class 6), sales (class 7), customers, and an
\* account that only its name marks as overhead
BaseAccounts ==
    << Compte(1, 601, <<"A", "c", "h", "a", "t", "s">>),
       Compte(2, 706, <<"V", "e", "n", "t", "e", "s">>),
       Compte(3, 411, <<"C", "l", "i", "e", "n", "t", "s">>),
       Compte(4, 421, <<"D", "i", "r", "e", "c", "t", "i", "o", "n">>) >>

Projet(id, name, active, analytic, date_start, date, status) ==
    [id |-> id, name |-> name, active |-> active,
     analytic_account_id |-> analytic, date_start |-> date_start,
     date |-> date, last_update_status |-> status]

BaseProjects ==
    << Projet(1, "Alpha", TRUE, 1, 1, MaxDay, "on_track"),
       Projet(2, "", TRUE, 2, MaxDay, MaxDay, "at_risk"),
       Projet(3, "Gamma", FALSE, None, 1, 1, "to_define") >>

Timesheet(project_id, day, amount, unit_amount, employee_id) ==
    [project_id |-> project_id, date |-> day, amount |-> amount,
     unit_amount |-> unit_amount, employee_id |-> employee_id]

WithIds(rows) == [i \in 1..Len(rows) |-> [id |-> i] @@ rows[i]]

ProjectFields ==
    {<<"project.project", "active">>, <<"project.project", "date_start">>,
     <<"project.project", "date">>, <<"project.project", "analytic_account_id">>,
     <<"project.project", "last_update_status">>}

\* Odoo 16+: account.move.line carries analytic_distribution
FullSchema == ProjectFields \cup {<<"account.move.line", "analytic_distribution">>}
\* before: account.move.line carries analytic_account_id
LegacySchema == ProjectFields \cup {<<"account.move.line", "analytic_account_id">>}
\* no analytic field on account.move.line
BareSchema == ProjectFields

Idle == [op |-> "idle", projet_id |-> 0, date_debut |-> RawNone,
         date_fin |-> RawNone, fault |-> "none"]

\* the workers that answer requests at the same time
Workers == {1, 2}

\* a worker without request
NoFrame == [pc |-> "idle", date_debut |-> RawNone, date_fin |-> RawNone,
            result |-> DefaultResult]

InitStore(docs, timesheets, accounts, projects, e, sch, b) ==
    /\ env = e
    /\ schema = sch
    /\ broken = b
    /\ account_move = IF "account.move" \in e THEN MovesOf(docs) ELSE <<>>
    \* move_id is required: no line without the table of its moves
    /\ account_move_line =
          IF {"account.move", "account.move.line"} \subseteq e
          THEN LinesOf(docs) ELSE <<>>
    /\ account_account = IF "account.account" \in e THEN accounts ELSE <<>>
    /\ account_analytic_line =
          IF "account.analytic.line" \in e THEN WithIds(timesheets) ELSE <<>>
    /\ project_project = IF "project.project" \in e THEN projects ELSE <<>>
    /\ call = Idle
    /\ ret = Ok(0)
    /\ requests = [p \in Workers |-> NoFrame]

\* a request that empties the project table while it is answered
RequestWriting(op, projet_id, date_debut, date_fin, fault, answer) ==
    /\ call.op = "idle"
    /\ call' = [op |-> op, projet_id |-> projet_id, date_debut |-> date_debut,
                date_fin |-> date_fin, fault |-> fault]
    /\ ret' = answer
    /\ project_project' = <<>>
    /\ UNCHANGED <<env, schema, broken, account_move, account_move_line,
                   account_account, account_analytic_line, requests>>

\* ------------------------------------------------------------------ actions
Request(op, projet_id, date_debut, date_fin, fault, answer) ==
    /\ call.op = "idle"
    /\ call' = [op |-> op, projet_id |-> projet_id, date_debut |-> date_debut,
                date_fin |-> date_fin, fault |-> fault]
    /\ ret' = answer
    /\ UNCHANGED <<store, requests>>

\* date arguments of the public methods
RawDates == {RawNone, RawBad} \cup {RawIso(d) : d \in Days}
\* date arguments of the JSON route: a JSON number is no text
JsonDates == RawDates \cup {[kind |-> "number", iso |-> FALSE, day |-> 0]}
\* date arguments of the private methods
ParsedDates == {None} \cup Days

GetChiffreAffaires(dd, df) ==
    Request("get_chiffre_affaires", 0, dd, df, "none",
            get_chiffre_affaires(dd, df))

GetCaProjet(i, d1, d2) ==
    Request("_get_ca_projet_optimized", project_project[i].id, AsArg(d1), AsArg(d2),
            "none", _get_ca_projet_optimized(project_project[i], d1, d2))

GetCoutSalarial(i, d1, d2) ==
    Request("_get_cout_salarial_projet", project_project[i].id, AsArg(d1), AsArg(d2),
            "none", _get_cout_salarial_projet(project_project[i], d1, d2))

GetNbPersonnes(i) ==
    Request("_get_nb_personnes_projet", project_project[i].id, RawNone, RawNone,
            "none", _get_nb_personnes_projet(project_project[i]))

GetHeures(i, d1, d2) ==
    Request("_get_heures_projet", project_project[i].id, AsArg(d1), AsArg(d2),
            "none", _get_heures_projet(project_project[i], d1, d2))

GetProjetsData(dd, df) ==
    Request("get_projets_data", 0, dd, df, "none", get_projets_data(dd, df))

GetProjetsDataFailing(dd, df, failing) ==
    Request("get_projets_data", 0, dd, df, failing,
            get_projets_data_failing(dd, df, failing))

GetCoutAdministratif(dd, df) ==
    Request("_get_cout_administratif", 0, dd, df, "none",
            _get_cout_administratif(dd, df))

GetMargeSalariale(projet_id, dd, df) ==
    Request("get_marge_salariale_projet", projet_id, dd, df, "none",
            get_marge_salariale_projet(projet_id, dd, df))

GetMargeAdministrative(dd, df, fault) ==
    Request("get_marge_administrative", 0, dd, df,
            IF fault THEN "marge_admin_inner" ELSE "none",
            get_marge_administrative(dd, df, fault))

GetDashboardData(dd, df, fault) ==
    Request("get_dashboard_data", 0, dd, df, fault,
            get_dashboard_data(dd, df, fault))

ControllerGetDashboardData(dd, df) ==
    Request("controller.get_dashboard_data", 0, dd, df, "none",
            Controller_get_dashboard_data(dd, df))

ControllerGetProjetMarge(projet_id, dd, df) ==
    Request("controller.get_projet_marge", projet_id, dd, df, "none",
            Controller_get_projet_marge(projet_id, dd, df))

ControllerGetBudgetData(dd, df) ==
    Request("controller.get_budget_data", 0, dd, df, "none",
            Controller_get_budget_data(dd, df))

ValidateDate(d) ==
    Request("_validate_date", 0, d, RawNone, "none", _validate_date(d))

ParseDate(d) ==
    Request("_parse_date", 0, d, RawNone, "none", Ok(_parse_date(d)))

ExportDashboard(dd, df, format) ==
    Request("controller.export_dashboard", 0, dd, df, "none",
            Controller_export_dashboard(dd, df, format))

AddChartsSection(dd, df) ==
    Request("_add_charts_section", 0, dd, df, "none",
            Ok(_add_charts_section(get_dashboard_data(dd, df, "none").value)))

\* ---- get_dashboard_data, one section at a time, by several workers
\* every call writes the result of the worker with the lowest number
SharedFrame(p) == 1

\* result is a local variable: a call writes the dict of its own frame
Frame(p) == p

\* result = {...}: the call starts from the default dict
Begin(p, dd, df) ==
    /\ requests[p].pc = "idle"
    /\ requests' = [requests EXCEPT ![p].pc = "ca", ![p].date_debut = dd,
                                    ![p].date_fin = df,
                                    ![Frame(p)].result = DefaultResult]
    /\ UNCHANGED <<store, call, ret>>

\* result['chiffre_affaires'] = float(self.get_chiffre_affaires(...))
SectionCA(p) ==
    /\ requests[p].pc = "ca"
    /\ LET ca == get_chiffre_affaires(requests[p].date_debut, requests[p].date_fin)
       IN  requests' = [requests EXCEPT
               ![p].pc = "projets",
               ![Frame(p)].result.chiffre_affaires =
                   IF ca.exc THEN @ ELSE ca.value]
    /\ UNCHANGED <<store, call, ret>>

\* result['projets'] = self.get_projets_data(...)
SectionProjets(p) ==
    /\ requests[p].pc = "projets"
    /\ LET projets == get_projets_data(requests[p].date_debut, requests[p].date_fin)
       IN  requests' = [requests EXCEPT
               ![p].pc = "marge_admin",
               ![Frame(p)].result.projets =
                   IF projets.exc THEN @ ELSE projets.value]
    /\ UNCHANGED <<store, call, ret>>

\* result['marge_administrative'] = self.get_marge_administrative(...)
SectionMarge(p) ==
    /\ requests[p].pc = "marge_admin"
    /\ LET marge == get_marge_administrative(requests[p].date_debut,
                                             requests[p].date_fin, FALSE)
       IN  requests' = [requests EXCEPT
               ![p].pc = "return",
               ![Frame(p)].result.marge_administrative =
                   IF marge.exc THEN @ ELSE marge.value]
    /\ UNCHANGED <<store, call, ret>>

\* return result
Return(p) ==
    /\ requests[p].pc = "return"
    /\ requests' = [requests EXCEPT ![p] = NoFrame]
    /\ UNCHANGED <<store, call, ret>>

\* ---- the validation helpers of the controller, for an input of any type.
\* A Python value carries its type; a dict is a function from its keys.
PyNone == [type |-> "NoneType"]
PyNum(n) == [type |-> "int", n |-> n]
PyStr(s) == [type |-> "str", s |-> s]
PyList(items) == [type |-> "list", items |-> items]
PyDict(d) == [type |-> "dict", d |-> d]

\* bool(x)
PyTruthy(x) ==
    CASE x.type = "NoneType" -> FALSE
      [] x.type = "int" -> x.n # 0
      [] x.type = "str" -> x.s # ""
      [] x.type = "list" -> x.items # <<>>
      [] x.type = "dict" -> DOMAIN x.d # {}

\* the value is kept as it is
PyKeep(x) == x

\* x or 0
PyOrZero(x) == IF PyTruthy(x) THEN x ELSE PyNum(0)

\* d.get(key, default)
PyGet(d, key, default) == IF key \in DOMAIN d THEN d[key] ELSE default

\* d[key] = value
PySet(d, key, value) ==
    [k \in DOMAIN d \cup {key} |-> IF k = key THEN value ELSE d[k]]

\* {key: d.get(key, 0) or 0 for each of the keys}
PyFields(d, keys) ==
    PyDict([k \in keys |-> PyOrZero(PyGet(d, k, PyNum(0)))])

\* x if isinstance(x, dict) else {}
PyDictOrEmpty(x) == IF x.type = "dict" THEN x.d ELSE <<>>

MargeAdminKeys == {"ca_total", "cout_admin", "marge_admin", "taux_marge_admin"}
BudgetKeys == {"budget_total", "budget_consomme", "ecart_budget"}
MargeKeys == {"revenus", "cout_salarial", "marge", "taux_marge"}

\* DashboardController._ensure_valid_response: the dict is updated key by key
\* and returned; any other value is replaced by _default_dashboard_data()
_ensure_valid_response_any(data) ==
    IF data.type # "dict"
    THEN PyDict([chiffre_affaires |-> PyNum(0), projets |-> PyList(<<>>),
                 marge_administrative |-> PyFields(<<>>, MargeAdminKeys),
                 budget_comparison |-> PyFields(<<>>, BudgetKeys)])
    ELSE LET d1 == PySet(data.d, "chiffre_affaires",
                         PyOrZero(PyGet(data.d, "chiffre_affaires", PyNum(0))))
             d2 == IF PyGet(d1, "projets", PyNone).type # "list"
                   THEN PySet(d1, "projets", PyList(<<>>)) ELSE d1
             marge_admin ==
                 PyDictOrEmpty(PyGet(d2, "marge_administrative", PyDict(<<>>)))
             d3 == PySet(d2, "marge_administrative",
                         PyFields(marge_admin, MargeAdminKeys))
             budget_data ==
                 PyDictOrEmpty(PyGet(d3, "budget_comparison", PyDict(<<>>)))
         IN  PyDict(PySet(d3, "budget_comparison",
                          PyFields(budget_data, BudgetKeys)))

\* DashboardController._ensure_valid_marge: a new dict of the four fields;
\* any value that is no dict is replaced by _default_marge_data()
_ensure_valid_marge_any(data) ==
    IF data.type # "dict" THEN PyFields(<<>>, MargeKeys)
    ELSE PyFields(data.d, MargeKeys)

EnsureValidResponse(data) ==
    /\ call.op = "idle"
    /\ call' = [op |-> "_ensure_valid_response", data |-> data]
    /\ ret' = Ok(_ensure_valid_response_any(data))
    /\ UNCHANGED <<store, requests>>

EnsureValidMarge(data) ==
    /\ call.op = "idle"
    /\ call' = [op |-> "_ensure_valid_marge", data |-> data]
    /\ ret' = Ok(_ensure_valid_marge_any(data))
    /\ UNCHANGED <<store, requests>>

\* ---- DashboardController.health_check (route /dashboard_projet/health),
\* one check at a time; call.pc names the check that runs next and ret.value
\* is health_status (its details and its timestamp are left out)
HealthyStatus ==
    [status |-> "healthy",
     checks |-> [database |-> "ok", models |-> "ok", permissions |-> "ok",
                 calculations |-> "ok"],
     missing_models |-> <<>>]

required_models == <<"dashboard.projet", "project.project">>

\* health_status = {'status': 'healthy', ...}
HealthCheck ==
    /\ call.op = "idle"
    /\ call' = [op |-> "health_check", pc |-> "database"]
    /\ ret' = Ok(HealthyStatus)
    /\ UNCHANGED <<store, requests>>

\* request.env.cr.execute("SELECT 1"); fails: the statement raises
CheckDatabase(fails) ==
    /\ call.op = "health_check" /\ call.pc = "database"
    /\ call' = [call EXCEPT !.pc = "models"]
    /\ ret' = IF fails
              THEN Ok([ret.value EXCEPT !.checks.database = "error",
                                        !.status = "degraded"])
              ELSE ret
    /\ UNCHANGED <<store, requests>>

\* missing_models: the required models that are not in request.env
CheckModels ==
    /\ call.op = "health_check" /\ call.pc = "models"
    /\ call' = [call EXCEPT !.pc = "permissions"]
    /\ LET missing_models ==
               SelectSeq(required_models, LAMBDA model : model \notin env)
       IN  ret' = IF missing_models # <<>>
                  THEN Ok([ret.value EXCEPT !.checks.models = "error",
                                            !.missing_models = missing_models,
                                            !.status = "unhealthy"])
                  ELSE ret
    /\ UNCHANGED <<store, requests>>

\* check_access_rights('read') on project.project, when it is installed;
\* denied: the user has no read access and the call raises
CheckPermissions(denied) ==
    /\ call.op = "health_check" /\ call.pc = "permissions"
    /\ call' = [call EXCEPT !.pc = "calculations"]
    /\ ret' = IF "project.project" \in env /\ denied
              THEN Ok([ret.value EXCEPT !.checks.permissions = "warning",
                                        !.status = "degraded"])
              ELSE ret
    /\ UNCHANGED <<store, requests>>

\* dashboard.get_chiffre_affaires(), when dashboard.projet is installed;
\* fault: the call raises (a simulated failure)
CheckCalculations(fault) ==
    /\ call.op = "health_check" /\ call.pc = "calculations"
    /\ call' = [call EXCEPT !.pc = "return"]
    /\ ret' = IF /\ "dashboard.projet" \in env
                 /\ (fault \/ get_chiffre_affaires(RawNone, RawNone).exc)
              THEN Ok([ret.value EXCEPT
                          !.checks.calculations = "warning",
                          !.status = IF @ = "healthy" THEN "degraded" ELSE @])
              ELSE ret
    /\ UNCHANGED <<store, requests>>

\* the answer is returned to the caller
Respond ==
    /\ call.op # "idle"
    /\ call' = Idle
    /\ ret' = Ok(0)
    /\ UNCHANGED <<store, requests>>

\* ------------------------------------------------- portfolio revenue (SpecCA)
\* invoices: qualifying, credit/negative, zero, draft, cancelled, other type
InvoiceDocs ==
    UNION {{ Doc("posted", "out_invoice", d, 100, 2, 0, 100, <<>>, 100),
             Doc("posted", "out_invoice", d, -50, 2, 50, 0, <<>>, -50),
             Doc("posted", "out_invoice", d, 0, 2, 0, 0, <<>>, 0),
             Doc("draft", "out_invoice", d, 100, 2, 0, 100, <<>>, 100),
             Doc("cancel", "out_invoice", d, 100, 2, 0, 100, <<>>, 100),
             Doc("posted", "out_receipt", d, 100, 2, 0, 100, <<>>, 100) }
           : d \in Days}

InitCA ==
    \/ \E docs \in SeqsUpTo(InvoiceDocs, MaxRecs) :
          InitStore(docs, <<>>, BaseAccounts, BaseProjects, Models, FullSchema, {})
    \/ \E docs \in SeqsUpTo(InvoiceDocs, 1) :
          \/ InitStore(docs, <<>>, BaseAccounts, BaseProjects,
                       Models \ {"account.move"}, FullSchema, {})
          \/ InitStore(docs, <<>>, BaseAccounts, BaseProjects,
                       Models, FullSchema, {"account.move"})

NextCA ==
    \/ \E dd \in RawDates, df \in RawDates : GetChiffreAffaires(dd, df)
    \/ Respond

SpecCA == InitCA /\ [][NextCA]_vars

\* ------------------------------------------------------ reading a request
\* sum of f over its (finite) domain
RECURSIVE SumFun(_)
SumFun(f) ==
    IF DOMAIN f = {} THEN 0
    ELSE LET x == CHOOSE y \in DOMAIN f : TRUE
         IN  f[x] + SumFun([y \in DOMAIN f \ {x} |-> f[y]])

\* the bound a date argument puts on the range: a day, or None for an absent
\* or malformed one
Bound(raw) == IF (raw.kind = "str" /\ raw.iso) \/ raw.kind = "date"
              THEN raw.day ELSE None

\* day lies within the requested range, bounds included
InRange(day, raw_debut, raw_fin) ==
    /\ day # None
    /\ (Bound(raw_debut) # None => day >= Bound(raw_debut))
    /\ (Bound(raw_fin) # None => day <= Bound(raw_fin))

Requested(day) == InRange(day, call.date_debut, call.date_fin)

\* ---------------------------------------------------------------- C5
\* the invoices that count as revenue for the current request
RevenueInvoices ==
    {i \in DOMAIN account_move :
        /\ account_move[i].state = "posted"
        /\ account_move[i].move_type = "out_invoice"
        /\ Requested(account_move[i].invoice_date)
        /\ account_move[i].amount_total_signed > 0}

\* C5: when the invoice query does not fail, get_chiffre_affaires returns
\* exactly the sum of amount_total_signed over the invoices that are posted,
\* of type out_invoice, dated within the range and strictly positive; every
\* other invoice contributes nothing.
C5_PortfolioRevenue ==
    (call.op = "get_chiffre_affaires" /\ "account.move" \notin broken)
        => ret = Ok(SumFun([i \in RevenueInvoices |->
                               account_move[i].amount_total_signed]))

\* two invoices, one counted and one left out, under a bounded range
C5_Witness ==
    /\ call.op = "get_chiffre_affaires"
    /\ "account.move" \notin broken
    /\ Bound(call.date_debut) # None
    /\ Len(account_move) = 2
    /\ Cardinality(RevenueInvoices) = 1
    /\ ret.value = 100

\* ------------------------------------------- project revenue (SpecCAProjet)
\* invoice lines: attributed to account 1 or 2, negative, unattributed, on a
\* draft invoice, on a vendor bill
LineDocs ==
    UNION {{ Doc("posted", "out_invoice", d, 100, 2, 0, 100, Dist(1), 100),
             Doc("posted", "out_invoice", d, 100, 2, 0, 100, Dist(2), 100),
             Doc("posted", "out_invoice", d, -30, 2, 30, 0, Dist(1), -30),
             Doc("posted", "out_invoice", d, 100, 2, 0, 100, <<>>, 100),
             Doc("draft", "out_invoice", d, 100, 2, 0, 100, Dist(1), 100),
             Doc("posted", "in_invoice", d, -100, 1, 100, 0, Dist(1), 100) }
           : d \in Days}

InitCAProjet ==
    \/ \E docs \in SeqsUpTo(LineDocs, MaxRecs) :
          \/ InitStore(docs, <<>>, BaseAccounts, BaseProjects, Models, FullSchema, {})
          \/ InitStore(docs, <<>>, BaseAccounts, BaseProjects, Models, LegacySchema, {})
    \/ \E docs \in SeqsUpTo({d \in LineDocs : d.dist = <<>>}, MaxRecs) :
          InitStore(docs, <<>>, BaseAccounts, BaseProjects, Models, BareSchema, {})
    \/ \E docs \in SeqsUpTo(LineDocs, 1) :
          \/ InitStore(docs, <<>>, BaseAccounts, BaseProjects,
                       Models \ {"account.move.line"}, FullSchema, {})
          \/ InitStore(docs, <<>>, BaseAccounts, BaseProjects,
                       Models, FullSchema, {"account.move.line"})

NextCAProjet ==
    \/ \E i \in DOMAIN project_project, d1 \in ParsedDates, d2 \in ParsedDates :
          GetCaProjet(i, d1, d2)
    \/ \E dd \in RawDates, df \in RawDates : GetChiffreAffaires(dd, df)
    \/ Respond

SpecCAProjet == InitCAProjet /\ [][NextCAProjet]_vars

\* the project the current request is about
CallProjet ==
    CHOOSE p \in {project_project[i] : i \in DOMAIN project_project} :
        p.id = call.projet_id

\* the analytic accounts a line is attributed to
Attribution(ligne) ==
    {ligne.analytic_distribution[k].key : k \in DOMAIN ligne.analytic_distribution}

\* the invoice lines that count as revenue of the requested project
ProjectRevenueLines ==
    {i \in DOMAIN account_move_line :
        /\ CallProjet.analytic_account_id # None
        /\ CallProjet.analytic_account_id \in Attribution(account_move_line[i])
        /\ account_move[account_move_line[i].move_id].state = "posted"
        /\ account_move[account_move_line[i].move_id].move_type = "out_invoice"
        /\ Requested(account_move[account_move_line[i].move_id].invoice_date)}

\* ---------------------------------------------------------------- C6
\* C6: when the line query does not fail, _get_ca_projet_optimized returns the
\* sum of price_subtotal over exactly the invoice lines attributed to the
\* project's analytic account whose invoice is posted, customer-type and dated
\* within the range; a line attributed only to other accounts adds nothing.
C6_ProjectRevenue ==
    (/\ call.op = "_get_ca_projet_optimized"
     /\ "account.move.line" \notin broken
     /\ schema # BareSchema)
        => ret = Ok(SumFun([i \in ProjectRevenueLines |->
                               account_move_line[i].price_subtotal]))

\* ---------------------------------------------------------------- C7
\* C7: the revenue calculators return 0, without raising, when there is no
\* qualifying data: the invoice or invoice-line model is absent, the project
\* has no analytic account, or no invoice / no line of the project matches.
C7_NoDataNoRevenue ==
    /\ (/\ call.op = "_get_ca_projet_optimized"
        /\ \/ "account.move.line" \notin env
           \/ CallProjet.analytic_account_id = None
           \/ ProjectRevenueLines = {})
          => ret = Ok(0)
    /\ (/\ call.op = "get_chiffre_affaires"
        /\ \/ "account.move" \notin env
           \/ RevenueInvoices = {})
          => ret = Ok(0)

\* ------------------------------------------------- staffing cost (SpecCout)
\* cost entries: a cost, a zero/missing amount, a billable (positive) amount,
\* a cost of the other project
CostEntries ==
    UNION {{ Timesheet(1, d, -500, 8, 1),
             Timesheet(1, d, 0, 8, 1),
             Timesheet(1, d, 50, 8, 2),
             Timesheet(2, d, -100, 4, 2) }
           : d \in Days}

InitCout ==
    \/ \E ts \in SeqsUpTo(CostEntries, MaxRecs) :
          InitStore(<<>>, ts, BaseAccounts, BaseProjects, Models, FullSchema, {})
    \/ \E ts \in SeqsUpTo(CostEntries, 1) :
          \/ InitStore(<<>>, ts, BaseAccounts, BaseProjects,
                       Models \ {"account.analytic.line"}, FullSchema, {})
          \/ InitStore(<<>>, ts, BaseAccounts, BaseProjects,
                       Models, FullSchema, {"account.analytic.line"})

NextCout ==
    \/ \E i \in DOMAIN project_project, d1 \in ParsedDates, d2 \in ParsedDates :
          GetCoutSalarial(i, d1, d2)
    \/ Respond

SpecCout == InitCout /\ [][NextCout]_vars

\* the entries of the requested project dated within the range
ProjectEntries ==
    {i \in DOMAIN account_analytic_line :
        /\ account_analytic_line[i].project_id = call.projet_id
        /\ Requested(account_analytic_line[i].date)}

\* ---------------------------------------------------------------- C8
\* C8: when the entry query does not fail, _get_cout_salarial_projet returns
\* the sum of |amount| over exactly the entries of the project dated within
\* the range whose amount is strictly negative; an entry with a positive, zero
\* or missing amount adds nothing.
C8_StaffingCost ==
    (call.op = "_get_cout_salarial_projet"
     /\ "account.analytic.line" \notin broken)
        => ret = Ok(SumFun([i \in {j \in ProjectEntries :
                                      account_analytic_line[j].amount < 0} |->
                               0 - account_analytic_line[i].amount]))

\* a cost and a billable entry of the same project within the range
C8_Witness ==
    /\ call.op = "_get_cout_salarial_projet"
    /\ "account.analytic.line" \notin broken
    /\ Cardinality(ProjectEntries) = 2
    /\ \E i \in ProjectEntries : account_analytic_line[i].amount > 0
    /\ ret.value = 500

\* ------------------------------------------ administrative cost (SpecAdmin)
\* ledger lines: an expense (debit), an expense correction (credit), an
\* expense on an unposted entry, a sale, a receivable, an overhead by name
LedgerDocs ==
    UNION {{ Doc("posted", "entry", d, 80, 1, 80, 0, <<>>, 0),
             Doc("posted", "entry", d, 30, 1, 0, 30, <<>>, 0),
             Doc("draft", "entry", d, 80, 1, 80, 0, <<>>, 0),
             Doc("posted", "out_invoice", d, 100, 2, 0, 100, <<>>, 100),
             Doc("posted", "entry", d, 100, 3, 100, 0, <<>>, 0),
             Doc("posted", "entry", d, 80, 4, 80, 0, <<>>, 0) }
           : d \in Days}

\* the charts of accounts explored: the full one, receivables only, none
AccountTables == {BaseAccounts, <<BaseAccounts[3]>>, <<>>}

AccountIds(accounts) == {accounts[i].id : i \in DOMAIN accounts}

InitAdmin ==
    \/ \E accounts \in AccountTables :
       \E docs \in SeqsUpTo({d \in LedgerDocs :
                               d.account_id \in AccountIds(accounts)}, MaxRecs) :
          InitStore(docs, <<>>, accounts, BaseProjects, Models, FullSchema, {})
    \/ \E docs \in SeqsUpTo(LedgerDocs, 1) :
       \E m \in {"account.move.line", "account.account"} :
          \/ InitStore(docs, <<>>, BaseAccounts, BaseProjects,
                       Models \ {m}, FullSchema, {})
          \/ InitStore(docs, <<>>, BaseAccounts, BaseProjects,
                       Models, FullSchema, {m})
    \/ \E ts \in SeqsUpTo(CostEntries, 1) :
          InitStore(<<>>, ts, BaseAccounts, BaseProjects, Models, FullSchema, {})

NextAdmin ==
    \/ \E dd \in RawDates, df \in RawDates : GetCoutAdministratif(dd, df)
    \/ \E i \in DOMAIN project_project, d1 \in ParsedDates, d2 \in ParsedDates :
          GetCoutSalarial(i, d1, d2)
    \/ Respond

SpecAdmin == InitAdmin /\ [][NextAdmin]_vars

\* an account classified as administrative / overhead: its code starts with 6
\* (expense class), or its name holds one of the overhead words
Overhead(compte) ==
    \/ (compte.code # <<>> /\ Head(compte.code) = "6")
    \/ \E w \in { <<"a", "d", "m", "i", "n">>,
                  <<"f", "r", "a", "i", "s", " ",
                    "g", "é", "n", "é", "r", "a", "u", "x">>,
                  <<"d", "i", "r", "e", "c", "t", "i", "o", "n">>,
                  <<"m", "a", "n", "a", "g", "e", "m", "e", "n", "t">> } :
          Contains(Lower(compte.name), w)

OverheadIds ==
    {account_account[i].id : i \in {j \in DOMAIN account_account :
                                       Overhead(account_account[j])}}

\* the ledger lines that count as administrative cost for the request
OverheadLines ==
    {i \in DOMAIN account_move_line :
        /\ account_move_line[i].account_id \in OverheadIds
        /\ account_move[account_move_line[i].move_id].state = "posted"
        /\ Requested(account_move[account_move_line[i].move_id].date)}

AbsDiff(a, b) == IF a >= b THEN a - b ELSE b - a

\* ---------------------------------------------------------------- C9
\* C9: when no query fails, _get_cout_administratif returns the sum of
\* |debit - credit| over the ledger lines of posted moves, dated within the
\* range, booked on an account classified as administrative (code prefix or
\* name); any other line contributes nothing.
C9_AdminCost ==
    (/\ call.op = "_get_cout_administratif"
     /\ broken = {})
        => ret = Ok(SumFun([i \in OverheadLines |->
                               AbsDiff(account_move_line[i].debit,
                                       account_move_line[i].credit)]))

\* ---------------------------------------------------------------- C10
\* C10: the cost calculators return 0, without raising, when nothing
\* qualifies: no cost-entry model or no entry of the project in range; no
\* ledger-line or account model, no account classified as administrative, or
\* no posted line in range on such an account.
C10_NoDataNoCost ==
    /\ (/\ call.op = "_get_cout_salarial_projet"
        /\ \/ "account.analytic.line" \notin env
           \/ ProjectEntries = {})
          => ret = Ok(0)
    /\ (/\ call.op = "_get_cout_administratif"
        /\ \/ "account.move.line" \notin env
           \/ "account.account" \notin env
           \/ OverheadIds = {}
           \/ OverheadLines = {})
          => ret = Ok(0)

\* ---------------------------------------------------- margins (SpecMarge)
\* documents: an invoice of project 1, a negative invoice line of project 1,
\* an expense
MargeDocs ==
    { Doc("posted", "out_invoice", 1, 100, 3, 0, 100, Dist(1), 100),
      Doc("posted", "out_invoice", MaxDay, -30, 3, 30, 0, Dist(1), -30),
      Doc("posted", "entry", 1, 500, 1, 500, 0, <<>>, 0) }

\* cost entries of project 1
MargeEntries ==
    { Timesheet(1, 1, -500, 8, 1), Timesheet(1, MaxDay, -100, 2, 2) }

InitMarge ==
    \/ \E docs \in SeqsUpTo(MargeDocs, MaxRecs), ts \in SeqsUpTo(MargeEntries, MaxRecs) :
          InitStore(docs, ts, BaseAccounts, BaseProjects, Models, FullSchema, {})
    \/ \E docs \in SeqsUpTo(MargeDocs, 1), ts \in SeqsUpTo(MargeEntries, 1) :
       \E m \in {"project.project", "account.move", "account.move.line",
                 "account.analytic.line", "dashboard.projet"} :
          \/ InitStore(docs, ts, BaseAccounts, BaseProjects,
                       Models \ {m}, FullSchema, {})
          \/ InitStore(docs, ts, BaseAccounts, BaseProjects, Models, FullSchema, {m})

\* project ids asked for: negative, falsy, known (one of them archived),
\* unknown
ProjetIds == {-1, 0, 1, 2, 3, 7}

NextMarge ==
    \/ \E id \in ProjetIds, dd \in RawDates, df \in RawDates :
          GetMargeSalariale(id, dd, df)
    \/ \E dd \in RawDates, df \in RawDates, fault \in BOOLEAN :
          GetMargeAdministrative(dd, df, fault)
    \/ \E id \in ProjetIds, dd \in JsonDates, df \in JsonDates :
          ControllerGetProjetMarge(id, dd, df)
    \/ Respond

SpecMarge == InitMarge /\ [][NextMarge]_vars

\* ---------------------------------------------------------------- C3
\* C3: every margin result satisfies margin = revenue - cost exactly:
\* marge = revenus - cout_salarial for a project, marge_admin = ca_total -
\* cout_admin for the portfolio, the fail-soft zero structure included.
C3_MarginIsRevenueMinusCost ==
    /\ call.op = "get_marge_salariale_projet"
          => /\ ~ret.exc
             /\ ret.value.marge = ret.value.revenus - ret.value.cout_salarial
    /\ call.op = "get_marge_administrative"
          => /\ ~ret.exc
             /\ ret.value.marge_admin
                   = ret.value.ca_total - ret.value.cout_admin

\* a project margin with negative revenue and a positive cost
C3_Witness ==
    /\ call.op = "get_marge_salariale_projet"
    /\ ret.value.revenus = -30
    /\ ret.value.cout_salarial = 500
    /\ ret.value.marge = -530

\* ---------------------------------------------------------------- C4
\* rate (in hundredths of a percent) is marge / revenus * 100 rounded to two
\* decimals: no hundredth is nearer to the quotient
IsRoundedRate(rate, marge, revenus) ==
    2 * AbsDiff(rate * revenus, marge * 10000) <= revenus

\* C4: the margin rate is exactly 0 whenever revenue <= 0, and otherwise is
\* margin / revenue * 100 rounded to 2 decimals.
C4_MarginRate ==
    /\ call.op = "get_marge_salariale_projet"
          => IF ret.value.revenus <= 0 THEN ret.value.taux_marge = 0
             ELSE IsRoundedRate(ret.value.taux_marge, ret.value.marge,
                                ret.value.revenus)
    /\ call.op = "get_marge_administrative"
          => IF ret.value.ca_total <= 0 THEN ret.value.taux_marge_admin = 0
             ELSE IsRoundedRate(ret.value.taux_marge_admin,
                                ret.value.marge_admin, ret.value.ca_total)

\* revenue 0 and cost 500: margin -500 and rate 0
C4_Witness ==
    /\ call.op = "get_marge_salariale_projet"
    /\ ret.value.revenus = 0
    /\ ret.value.cout_salarial = 500
    /\ ret.value.marge = -500
    /\ ret.value.taux_marge = 0

\* a rate that needs rounding
C4_WitnessRounded ==
    /\ call.op = "get_marge_salariale_projet"
    /\ ret.value.revenus > 0
    /\ (ret.value.marge * 10000) % ret.value.revenus # 0

\* ---------------------------------------------------------------- C11
MargeRequests == {"get_marge_salariale_projet", "controller.get_projet_marge"}

\* the requested id is falsy, non-positive or names no project
NoSuchProjet ==
    \/ call.projet_id <= 0
    \/ \A i \in DOMAIN project_project : project_project[i].id # call.projet_id

IsZeroMarge(v) ==
    /\ v.revenus = 0
    /\ v.cout_salarial = 0
    /\ v.marge = 0
    /\ v.taux_marge = 0

\* the request reaches the margin calculator with a date range: the project
\* table can be read and, at the endpoint, the model is installed and the
\* dates are texts or absent
MargeComputable ==
    /\ ~NoSuchProjet
    /\ "project.project" \notin broken
    /\ call.op = "controller.get_projet_marge"
          => /\ "dashboard.projet" \in env
             /\ call.date_debut.kind # "number"
             /\ call.date_fin.kind # "number"

\* C11: a project-margin request whose project id is falsy, non-positive or
\* names no existing project returns the zero margin breakdown and never
\* raises, at get_marge_salariale_projet and at the endpoint get_projet_marge;
\* for an existing project the result is built from the project's revenue and
\* staffing cost over the range.
C11_ProjectMarginRequest ==
    call.op \in MargeRequests
        => /\ ~ret.exc
           /\ NoSuchProjet => IsZeroMarge(ret.value)
           /\ MargeComputable =>
                 LET revenus == _get_ca_projet_optimized(CallProjet,
                                    Bound(call.date_debut), Bound(call.date_fin)).value
                     cout == _get_cout_salarial_projet(CallProjet,
                                    Bound(call.date_debut), Bound(call.date_fin)).value
                 IN  /\ ret.value.revenus = revenus
                     /\ ret.value.cout_salarial = cout
                     /\ ret.value.marge = revenus - cout
                     /\ IF revenus > 0
                        THEN IsRoundedRate(ret.value.taux_marge, revenus - cout, revenus)
                        ELSE ret.value.taux_marge = 0

\* the endpoint is asked for a project that does not exist while other
\* projects have revenue and cost
C11_Witness ==
    /\ call.op = "controller.get_projet_marge"
    /\ call.projet_id = 7
    /\ "dashboard.projet" \in env
    /\ Len(project_project) = 3
    /\ Len(account_move_line) > 0
    /\ Len(account_analytic_line) > 0
    /\ IsZeroMarge(ret.value)

\* the endpoint answers for an existing project with its figures
C11_WitnessExisting ==
    /\ call.op = "controller.get_projet_marge"
    /\ call.projet_id = 1
    /\ ret.value.revenus = 100
    /\ ret.value.cout_salarial = 500
    /\ ret.value.marge = -400

\* ------------------------------------------------------- dashboard (Spec)
Init ==
    \/ \E docs \in SeqsUpTo(MargeDocs, MaxRecs), ts \in SeqsUpTo(MargeEntries, MaxRecs) :
          InitStore(docs, ts, BaseAccounts, BaseProjects, Models, FullSchema, {})
    \/ \E docs \in SeqsUpTo(MargeDocs, 1), ts \in SeqsUpTo(MargeEntries, 1) :
       \E m \in Models :
          \/ InitStore(docs, ts, BaseAccounts, BaseProjects,
                       Models \ {m}, FullSchema, {})
          \/ InitStore(docs, ts, BaseAccounts, BaseProjects, Models, FullSchema, {m})
    \* nothing recorded at all
    \/ InitStore(<<>>, <<>>, <<>>, <<>>, Models, FullSchema, {})

Next ==
    \/ \E dd \in RawDates, df \in RawDates, fault \in Faults :
          GetDashboardData(dd, df, fault)
    \/ \E dd \in JsonDates, df \in JsonDates : ControllerGetDashboardData(dd, df)
    \/ Respond

Spec == Init /\ [][Next]_vars

\* ---------------------------------------------------------------- C1
\* the fields of a DashboardSnapshot: total revenue, projects, administrative
\* margin, budget summary, chart data
SnapshotFields ==
    {"chiffre_affaires", "projets", "marge_administrative",
     "budget_comparison", "chart_data"}

\* C1: for every date range and every state of the record store, failing
\* queries included, get_dashboard_data never raises and its result holds
\* every field of a DashboardSnapshot, computed or at its default.
C1_FullSnapshot ==
    call.op \in {"get_dashboard_data", "controller.get_dashboard_data"}
        => /\ ~ret.exc
           /\ SnapshotFields \subseteq DOMAIN ret.value

\* ---------------------------------------------------------------- C2
MargeFaults == {"marge_admin", "marge_admin_inner"}

\* C2: in get_dashboard_data a failure in one section leaves the other
\* sections as they are without the failure: when the administrative margin
\* fails, projets and chiffre_affaires are the computed ones and only
\* marge_administrative is the all-zero default; likewise for the others.
C2_FaultIsolation ==
    call.op = "get_dashboard_data"
        => /\ ~ret.exc
           /\ ret.value.chiffre_affaires =
                 IF call.fault = "ca" THEN 0
                 ELSE get_chiffre_affaires(call.date_debut, call.date_fin).value
           /\ ret.value.projets =
                 IF call.fault = "projets" THEN <<>>
                 ELSE get_projets_data(call.date_debut, call.date_fin).value
           /\ ret.value.marge_administrative =
                 IF call.fault \in MargeFaults THEN ZeroMargeAdmin
                 ELSE get_marge_administrative(call.date_debut, call.date_fin,
                                               FALSE).value

\* the margin fails where it would not be zero, and the snapshot still holds
\* the revenue and the projects with their figures
C2_Witness ==
    /\ call.op = "get_dashboard_data"
    /\ call.fault \in MargeFaults
    /\ get_marge_administrative(call.date_debut, call.date_fin, FALSE).value
          # ZeroMargeAdmin
    /\ ret.value.marge_administrative = ZeroMargeAdmin
    /\ ret.value.chiffre_affaires = 100
    /\ Len(ret.value.projets) = 2
    /\ ret.value.projets[1].ca = 100


\* ---------------------------------------------------------------- C12
DashboardRequests == {"get_dashboard_data", "controller.get_dashboard_data"}

\* no record in any table
EmptyStore ==
    /\ account_move = <<>>
    /\ account_move_line = <<>>
    /\ account_account = <<>>
    /\ account_analytic_line = <<>>
    /\ project_project = <<>>

\* the figures the code computes on an empty store
EmptyStoreFigures ==
    /\ ~ret.exc
    /\ ret.value.chiffre_affaires = 0
    /\ ret.value.projets = <<>>
    /\ ret.value.marge_administrative = ZeroMargeAdmin

\* C12: get_dashboard_data on an entirely empty record store returns, in one
\* call and without raising, total revenue 0, an empty projects list, an
\* all-zero administrative margin, an all-zero budget summary with an empty
\* per-project breakdown, and empty chart series.
C12_EmptyStoreSnapshot ==
    (call.op \in DashboardRequests /\ EmptyStore)
        => /\ EmptyStoreFigures
           /\ "budget_comparison" \in DOMAIN ret.value
           /\ "projets_budget" \in DOMAIN ret.value.budget_comparison
           /\ ret.value.budget_comparison.budget_total = 0
           /\ ret.value.budget_comparison.budget_consomme = 0
           /\ ret.value.budget_comparison.ecart_budget = 0
           /\ ret.value.budget_comparison.projets_budget = <<>>
           /\ "chart_data" \in DOMAIN ret.value


\* ------------------------------------------------ date ranges (SpecRange)
\* Every calculator that takes a range, on the stores of the dashboard.
\* project.project carries date_start and date, with date >= date_start.
NextRange ==
    \/ \E dd \in RawDates, df \in RawDates :
          \/ GetChiffreAffaires(dd, df)
          \/ GetCoutAdministratif(dd, df)
          \/ GetProjetsData(dd, df)
          \/ GetDashboardData(dd, df, "none")
    \/ \E id \in ProjetIds, dd \in RawDates, df \in RawDates :
          GetMargeSalariale(id, dd, df)
    \/ \E i \in DOMAIN project_project, d1 \in ParsedDates, d2 \in ParsedDates :
          \/ GetCaProjet(i, d1, d2)
          \/ GetHeures(i, d1, d2)
          \/ GetCoutSalarial(i, d1, d2)
    \/ Respond

SpecRange == Init /\ [][NextRange]_vars

\* ---------------------------------------------------------------- C14
\* the requested range starts after it ends
Reversed ==
    /\ Bound(call.date_debut) # None
    /\ Bound(call.date_fin) # None
    /\ Bound(call.date_debut) > Bound(call.date_fin)

\* C14: for a date range whose start is after its end no entry point raises,
\* and the range is treated as empty: portfolio revenue, administrative cost,
\* per-project revenue, hours and cost are 0 and the projects list is empty.
C14_ReversedRangeIsEmpty ==
    (call.op # "idle" /\ Reversed)
        => /\ ~ret.exc
           /\ call.op \in {"get_chiffre_affaires", "_get_cout_administratif",
                            "_get_ca_projet_optimized", "_get_heures_projet",
                            "_get_cout_salarial_projet"}
                 => ret.value = 0
           /\ call.op = "get_projets_data" => ret.value = <<>>
           /\ call.op = "get_marge_salariale_projet"
                 => ret.value.revenus = 0 /\ ret.value.cout_salarial = 0
           /\ call.op = "get_dashboard_data"
                 => /\ ret.value.chiffre_affaires = 0
                    /\ ret.value.projets = <<>>
                    /\ ret.value.marge_administrative.ca_total = 0
                    /\ ret.value.marge_administrative.cout_admin = 0

\* a reversed range on a store whose figures over all time are not zero
C14_Witness ==
    /\ call.op = "get_dashboard_data"
    /\ Reversed
    /\ get_chiffre_affaires(RawNone, RawNone).value > 0
    /\ _get_cout_administratif(RawNone, RawNone).value > 0
    /\ get_projets_data(RawNone, RawNone).value # <<>>
    /\ ret.value.chiffre_affaires = 0
    /\ ret.value.projets = <<>>


\* ------------------------------------------------- date inputs (SpecDates)
NextDates ==
    \/ \E d \in JsonDates : ValidateDate(d) \/ ParseDate(d)
    \/ \E dd \in JsonDates, df \in JsonDates : ControllerGetDashboardData(dd, df)
    \/ \E dd \in RawDates, df \in RawDates, format \in Formats :
          ExportDashboard(dd, df, format)
    \/ Respond

SpecDates == Init /\ [][NextDates]_vars

\* ---------------------------------------------------------------- C15
\* a value that is not a valid YYYY-MM-DD text: a malformed text, or no text
Malformed(raw) == raw.kind = "number" \/ (raw.kind = "str" /\ ~raw.iso)

\* C15: a malformed date input, a value that is no text included, is turned
\* into None by _validate_date and by _parse_date, which never raise, and so
\* is treated as an absent bound on every entry point that accepts dates,
\* export_dashboard included.
C15_MalformedDateIsNone ==
    /\ (call.op = "_validate_date" /\ Malformed(call.date_debut))
          => ~ret.exc /\ ret.value = RawNone
    /\ (call.op = "_parse_date" /\ Malformed(call.date_debut))
          => ~ret.exc /\ ret.value = None
    /\ (/\ call.op = "controller.get_dashboard_data"
        /\ "dashboard.projet" \in env
        /\ Malformed(call.date_debut))
          => ret = Controller_get_dashboard_data(RawNone, call.date_fin)
    /\ (/\ call.op = "controller.export_dashboard"
        /\ "dashboard.projet" \in env
        /\ ret.value.status = 200
        /\ Malformed(call.date_debut))
          => ret.value.data
                = get_dashboard_data(RawNone, call.date_fin, "none").value


\* ------------------------------------------------ budget data (SpecBudget)
\* projects with a budget of 1000, without budget, and with a budget of 300
BudgetProjects ==
    << [budget |-> 1000] @@ Projet(1, "Alpha", TRUE, 5, 1, MaxDay, "on_track"),
       [budget |-> 0] @@ Projet(2, "Beta", TRUE, 6, 1, MaxDay, "at_risk"),
       [budget |-> 300] @@ Projet(3, "Gamma", TRUE, 7, 1, MaxDay, "to_define") >>

\* invoices: 1200 for project 1, 100 for project 3, a credited 500 on
\* project 3, 40 for the project without budget
BudgetDocs ==
    { Doc("posted", "out_invoice", 1, 1200, 3, 0, 1200, Dist(5), 1200),
      Doc("posted", "out_invoice", MaxDay, 100, 3, 0, 100, Dist(7), 100),
      Doc("posted", "out_invoice", 1, -500, 3, 500, 0, Dist(7), -500),
      Doc("posted", "out_invoice", 1, 40, 3, 0, 40, Dist(6), 40) }

InitBudget ==
    \/ \E docs \in SeqsUpTo(BudgetDocs, MaxRecs) :
          InitStore(docs, <<>>, BaseAccounts, BudgetProjects, Models, FullSchema, {})
    \/ \E docs \in SeqsUpTo(BudgetDocs, 1) :
       \E m \in {"project.project", "account.move.line", "dashboard.projet"} :
          \/ InitStore(docs, <<>>, BaseAccounts, BudgetProjects,
                       Models \ {m}, FullSchema, {})
          \/ InitStore(docs, <<>>, BaseAccounts, BudgetProjects,
                       Models, FullSchema, {m})

NextBudget ==
    \/ \E dd \in JsonDates, df \in JsonDates :
          \/ ControllerGetBudgetData(dd, df)
          \/ ControllerGetDashboardData(dd, df)
    \/ \E id \in ProjetIds, dd \in JsonDates :
          ControllerGetProjetMarge(id, dd, RawNone)
    \/ Respond

SpecBudget == InitBudget /\ [][NextBudget]_vars

\* ---------------------------------------------------------------- C16
MargeFields == {"revenus", "cout_salarial", "marge", "taux_marge"}

BudgetFields ==
    {"budget_total", "budget_consomme", "ecart_budget", "projets_budget"}

\* C16: every public entry point answers, for every input and every store,
\* with an object that has all the fields of its result type; the budget
\* endpoint always answers with budget_total, budget_consomme, ecart_budget
\* and the per-project list, an internal failure included.
C16_EveryAnswerFullyShaped ==
    /\ call.op = "controller.get_dashboard_data"
          => SnapshotFields \subseteq DOMAIN ret.value
    /\ call.op = "controller.get_projet_marge"
          => MargeFields \subseteq DOMAIN ret.value
    /\ call.op = "controller.get_budget_data"
          => BudgetFields \subseteq DOMAIN ret.value

\* ---------------------------------------------------------------- C17
\* the project of the store with the given id
ProjetOfId(id) ==
    CHOOSE p \in {project_project[i] : i \in 1..Len(project_project)} : p.id = id

\* rate is realized / planned x 100, to the nearest hundredth of a percent,
\* and 0 when nothing is planned
IsUtilization(rate, realized, planned) ==
    IF planned <= 0 THEN rate = 0
    ELSE 2 * AbsDiff(rate * planned, realized * 10000) <= planned

\* an answer of the budget endpoint that is a computed summary
BudgetComputed ==
    /\ call.op = "controller.get_budget_data"
    /\ "error" \notin DOMAIN ret.value
    /\ "remaining" \in DOMAIN ret.value

\* C17: in the budget summary, per project and in aggregate, utilizationPct
\* is realized / planned x 100 (0 when planned <= 0) and remaining is
\* max(0, planned - realized), never negative; the totals are the sums of the
\* planned budgets and realized revenues of the projects; planned 1000 and
\* realized 1200 give utilization 120 and remaining 0.
C17_BudgetUtilization ==
    BudgetComputed =>
        LET s == ret.value
            e == s.projets_budget
        IN  /\ \A i \in 1..Len(e) :
                  /\ e[i].budget_prevu = ProjetOfId(e[i].id).budget
                  /\ IsUtilization(e[i].utilizationPct, e[i].budget_consomme,
                                   e[i].budget_prevu)
                  /\ e[i].remaining >= 0
                  /\ e[i].remaining =
                        (IF e[i].budget_prevu >= e[i].budget_consomme
                         THEN e[i].budget_prevu - e[i].budget_consomme ELSE 0)
                  /\ (e[i].budget_prevu = 1000 /\ e[i].budget_consomme = 1200)
                        => (e[i].utilizationPct = 12000 /\ e[i].remaining = 0)
            /\ s.budget_total = SumFun([i \in 1..Len(e) |-> e[i].budget_prevu])
            /\ s.budget_consomme =
                  SumFun([i \in 1..Len(e) |-> e[i].budget_consomme])
            /\ IsUtilization(s.utilizationPct, s.budget_consomme, s.budget_total)
            /\ s.remaining >= 0
            /\ s.remaining = (IF s.budget_total >= s.budget_consomme
                              THEN s.budget_total - s.budget_consomme ELSE 0)

\* planned 1000 and realized 1200: utilization 120, nothing remaining
C17_Witness ==
    /\ BudgetComputed
    /\ \E i \in 1..Len(ret.value.projets_budget) :
          /\ ret.value.projets_budget[i].budget_prevu = 1000
          /\ ret.value.projets_budget[i].budget_consomme = 1200
          /\ ret.value.projets_budget[i].utilizationPct = 12000
          /\ ret.value.projets_budget[i].remaining = 0

\* a utilization that needs rounding and a budget that is not used up
C17_WitnessRounded ==
    /\ BudgetComputed
    /\ \E i \in 1..Len(ret.value.projets_budget) :
          /\ ret.value.projets_budget[i].budget_prevu = 300
          /\ ret.value.projets_budget[i].budget_consomme = 100
          /\ ret.value.projets_budget[i].utilizationPct = 3333
          /\ ret.value.projets_budget[i].remaining = 200


\* --------------------------------------------- staffing figures (SpecStaff)
\* cost entries: two employees and an entry without employee on project 2,
\* one employee on project 1
StaffEntries ==
    UNION {{ Timesheet(2, d, -100, 4, 1),
             Timesheet(2, d, -100, 2, 2),
             Timesheet(2, d, -50, 1, None),
             Timesheet(1, d, -100, 8, 1) }
           : d \in Days}

InitStaff ==
    \/ \E ts \in SeqsUpTo(StaffEntries, MaxRecs) :
          InitStore(<<>>, ts, BaseAccounts, BaseProjects, Models, FullSchema, {})
    \/ \E ts \in SeqsUpTo(StaffEntries, 1) :
          \/ InitStore(<<>>, ts, BaseAccounts, BaseProjects,
                       Models \ {"account.analytic.line"}, FullSchema, {})
          \/ InitStore(<<>>, ts, BaseAccounts, BaseProjects,
                       Models, FullSchema, {"account.analytic.line"})

NextStaff ==
    \/ \E i \in DOMAIN project_project : GetNbPersonnes(i)
    \/ \E i \in DOMAIN project_project, d1 \in ParsedDates, d2 \in ParsedDates :
          GetHeures(i, d1, d2)
    \/ \E dd \in RawDates, df \in RawDates : GetProjetsData(dd, df)
    \/ Respond

SpecStaff == InitStaff /\ [][NextStaff]_vars

\* ---------------------------------------------------------------- C18
\* the entries of a project that carry a staff reference, of any date
StaffedEntries(projet_id) ==
    {i \in DOMAIN account_analytic_line :
        /\ account_analytic_line[i].project_id = projet_id
        /\ account_analytic_line[i].employee_id # None}

\* the distinct staff of a project
StaffOf(projet_id) ==
    {account_analytic_line[i].employee_id : i \in StaffedEntries(projet_id)}

\* C18: when the entry query does not fail, the head count of a project is
\* the number of distinct staff identifiers on its cost entries that carry a
\* staff reference, whatever their dates: in get_projets_data it is the same
\* for every date range, and an employee with several entries counts once.
C18_Headcount ==
    "account.analytic.line" \notin broken
        => /\ call.op = "_get_nb_personnes_projet"
                 => ret = Ok(Cardinality(StaffOf(call.projet_id)))
           /\ call.op = "get_projets_data"
                 => \A k \in 1..Len(ret.value) :
                       ret.value[k].nb_personnes =
                           Cardinality(StaffOf(ret.value[k].id))

\* a listed project whose two entries are of one employee and dated before
\* the range: head count 1, no hours
C18_Witness ==
    /\ call.op = "get_projets_data"
    /\ Bound(call.date_debut) # None
    /\ \E k \in 1..Len(ret.value) :
          /\ Cardinality(StaffedEntries(ret.value[k].id)) = 2
          /\ \A i \in StaffedEntries(ret.value[k].id) :
                account_analytic_line[i].date < Bound(call.date_debut)
          /\ ret.value[k].nb_personnes = 1
          /\ ret.value[k].heures = 0

\* two employees, and an entry without employee that is not counted
C18_WitnessDistinct ==
    /\ call.op = "_get_nb_personnes_projet"
    /\ ret.value = 1
    /\ \E i \in DOMAIN account_analytic_line :
          /\ account_analytic_line[i].project_id = call.projet_id
          /\ account_analytic_line[i].employee_id = None

\* ---------------------------------------------------------------- C19
\* C19: when the entry query does not fail, _get_heures_projet returns the
\* sum of unit_amount over exactly the entries of the project dated within
\* the range; it returns 0 when account.analytic.line is not installed or no
\* entry matches.
C19_Hours ==
    (call.op = "_get_heures_projet" /\ "account.analytic.line" \notin broken)
        => /\ ret = Ok(SumFun([i \in ProjectEntries |->
                                  account_analytic_line[i].unit_amount]))
           /\ (~_model_exists("account.analytic.line") \/ ProjectEntries = {})
                 => ret = Ok(0)

\* entries of the project inside and outside the range: only the hours inside
\* the range are summed
C19_Witness ==
    /\ call.op = "_get_heures_projet"
    /\ call.projet_id = 2
    /\ "account.analytic.line" \notin broken
    /\ Cardinality(ProjectEntries) = 1
    /\ \E i \in DOMAIN account_analytic_line \ ProjectEntries :
          account_analytic_line[i].project_id = 2
    /\ ret.value > 0


\* ------------------------------------------ metric computations (SpecReads)
\* The five metric computations of dashboard.projet, on the stores of the
\* dashboard.
NextReads ==
    \/ \E dd \in RawDates, df \in RawDates :
          \/ GetChiffreAffaires(dd, df)
          \/ GetProjetsData(dd, df)
          \/ \E fault \in BOOLEAN : GetMargeAdministrative(dd, df, fault)
          \/ \E fault \in Faults : GetDashboardData(dd, df, fault)
    \/ \E id \in ProjetIds, dd \in RawDates : GetMargeSalariale(id, dd, RawNone)
    \/ Respond

SpecReads == Init /\ [][NextReads]_vars

\* ---------------------------------------------------------------- C20
MetricComputations ==
    {"get_chiffre_affaires", "get_projets_data", "get_marge_salariale_projet",
     "get_marge_administrative", "get_dashboard_data"}

\* C20: the metric computations are pure reads: a call of
\* get_chiffre_affaires, get_projets_data, get_marge_salariale_projet,
\* get_marge_administrative or get_dashboard_data leaves the installed models,
\* the invoices, invoice lines, accounts, cost entries and projects as they
\* were, whether it succeeds or falls back to defaults.
C20_PureReads ==
    [][call'.op \in MetricComputations => store' = store]_vars

\* a dashboard request answered over recorded invoices and cost entries, with
\* a computed revenue and the margin section fallen back to its default
C20_Witness ==
    /\ call.op = "get_dashboard_data"
    /\ call.fault = "marge_admin"
    /\ Len(account_move) > 0
    /\ Len(account_analytic_line) > 0
    /\ ret.value.chiffre_affaires = 100
    /\ ret.value.projets # <<>>
    /\ ret.value.marge_administrative = ZeroMargeAdmin


\* ----------------------------------------------- PDF charts (SpecCharts)
Statuses == {"on_track", "at_risk", "hold"}

\* active projects, one per status of the given sequence
ProjectsOfStatuses(statuses) ==
    [i \in 1..Len(statuses) |->
        Projet(i, "P", TRUE, None, 1, MaxDay, statuses[i])]

InitCharts ==
    \E statuses \in SeqsUpTo(Statuses, MaxRecs + 1) :
       \/ InitStore(<<>>, <<>>, BaseAccounts, ProjectsOfStatuses(statuses),
                    Models, FullSchema, {})
       \/ InitStore(<<>>, <<>>, BaseAccounts, ProjectsOfStatuses(statuses),
                    Models, FullSchema \ {<<"project.project", "last_update_status">>},
                    {})

NextCharts ==
    \/ \E dd \in RawDates, df \in RawDates : AddChartsSection(dd, df)
    \/ Respond

SpecCharts == InitCharts /\ [][NextCharts]_vars

\* ---------------------------------------------------------------- C21
\* the projects of the snapshot the charts are drawn from
ChartProjets ==
    get_projets_data(call.date_debut, call.date_fin).value

\* position of the first project with the given status label
FirstWith(label) ==
    CHOOSE i \in 1..Len(ChartProjets) :
        /\ ChartProjets[i].stage = label
        /\ \A j \in 1..(i - 1) : ChartProjets[j].stage # label

\* C21: the status distribution groups the projects of the snapshot by status
\* label, with one count per distinct label, the labels in the order of their
\* first occurrence in the projects list; the counts sum to the number of
\* projects.
C21_StatusDistribution ==
    call.op = "_add_charts_section" =>
        LET pie == ret.value
            n == Len(pie.labels)
        IN  /\ Len(pie.data) = n
            /\ {pie.labels[k] : k \in 1..n}
                  = {ChartProjets[i].stage : i \in 1..Len(ChartProjets)}
            /\ \A k \in 1..n, l \in 1..n : pie.labels[k] = pie.labels[l] => k = l
            /\ \A k \in 1..n :
                  pie.data[k] = Cardinality({i \in 1..Len(ChartProjets) :
                                               ChartProjets[i].stage = pie.labels[k]})
            /\ \A k \in 1..n, l \in 1..n :
                  k < l => FirstWith(pie.labels[k]) < FirstWith(pie.labels[l])
            /\ SumFun(pie.data) = Len(ChartProjets)

\* two labels, the first of the list met again after the second
C21_Witness ==
    /\ call.op = "_add_charts_section"
    /\ ret.value.drawn
    /\ ret.value.labels = <<"En danger", "En bonne voie">>
    /\ ret.value.data = <<2, 1>>
    /\ Len(ChartProjets) = 3
    /\ ChartProjets[3].stage = "En danger"


\* -------------------------------------- concurrent requests (SpecConcurrent)
\* ranges asked for: everything, the first day, from the last day on
ConcurrentRanges ==
    {<<RawNone, RawNone>>, <<RawIso(1), RawIso(1)>>, <<RawIso(MaxDay), RawNone>>}

InitConcurrent ==
    \E docs \in SeqsUpTo(MargeDocs, MaxRecs), ts \in SeqsUpTo(MargeEntries, MaxRecs) :
        InitStore(docs, ts, BaseAccounts, BaseProjects, Models, FullSchema, {})

NextConcurrent ==
    \E p \in Workers :
        \/ \E r \in ConcurrentRanges : Begin(p, r[1], r[2])
        \/ SectionCA(p)
        \/ SectionProjets(p)
        \/ SectionMarge(p)
        \/ Return(p)

SpecConcurrent == InitConcurrent /\ [][NextConcurrent]_vars

\* ---------------------------------------------------------------- C22
\* C22: requests are independent: when two get_dashboard_data requests, of
\* the same range or not, are interleaved in any order over an unchanged
\* store, each returns exactly the result it returns when it runs alone.
C22_IndependentRequests ==
    \A p \in Workers :
        requests[p].pc = "return"
            => requests[p].result =
                  get_dashboard_data(requests[p].date_debut,
                                     requests[p].date_fin, "none").value

\* a request returns while another one, of another range and with another
\* revenue, is half way
C22_Witness ==
    /\ requests[1].pc = "return"
    /\ requests[2].pc = "projets"
    /\ requests[1].date_debut # requests[2].date_debut
    /\ requests[1].result.chiffre_affaires = 0
    /\ requests[2].result.chiffre_affaires = 100
    /\ requests[1].result.projets # <<>>


\* ------------------------------------------------ date bounds (SpecBounds)
\* One invoice and one cost entry per day; the sums that take a range.
InitBounds ==
    \/ \E docs \in SeqsUpTo({Doc("posted", "out_invoice", d, 100, 2, 0, 100, <<>>, 100)
                               : d \in Days}, MaxRecs) :
          InitStore(docs, <<>>, BaseAccounts, BaseProjects, Models, FullSchema, {})
    \/ \E ts \in SeqsUpTo({Timesheet(1, d, -500, 8, 1) : d \in Days}, MaxRecs) :
          InitStore(<<>>, ts, BaseAccounts, BaseProjects, Models, FullSchema, {})

NextBounds ==
    \/ \E dd \in RawDates, df \in RawDates : GetChiffreAffaires(dd, df)
    \/ \E d1 \in ParsedDates, d2 \in ParsedDates :
          \/ GetHeures(1, d1, d2)
          \/ GetCoutSalarial(1, d1, d2)
    \/ Respond

SpecBounds == InitBounds /\ [][NextBounds]_vars

\* ---------------------------------------------------------------- C23
\* a day is kept by the bounds of the request: on or after the start when
\* there is one, on or before the end when there is one
Kept(day) ==
    /\ (Bound(call.date_debut) = None \/ day >= Bound(call.date_debut))
    /\ (Bound(call.date_fin) = None \/ day <= Bound(call.date_fin))

\* C23: date bounds are inclusive and optional: a record dated exactly on the
\* start or on the end date counts in the revenue, hours and cost sums, an
\* absent start or end filters nothing on its side, and a fully absent range
\* covers all records.
C23_InclusiveOptionalBounds ==
    /\ call.op = "get_chiffre_affaires"
          => ret.value = 100 * Cardinality({i \in DOMAIN account_move :
                                               Kept(account_move[i].invoice_date)})
    /\ call.op = "_get_heures_projet"
          => ret.value = 8 * Cardinality({i \in DOMAIN account_analytic_line :
                                             Kept(account_analytic_line[i].date)})
    /\ call.op = "_get_cout_salarial_projet"
          => ret.value = 500 * Cardinality({i \in DOMAIN account_analytic_line :
                                               Kept(account_analytic_line[i].date)})
    /\ (Bound(call.date_debut) = None /\ Bound(call.date_fin) = None)
          => /\ call.op = "get_chiffre_affaires"
                   => ret.value = 100 * Len(account_move)
             /\ call.op = "_get_heures_projet"
                   => ret.value = 8 * Len(account_analytic_line)
             /\ call.op = "_get_cout_salarial_projet"
                   => ret.value = 500 * Len(account_analytic_line)

\* an invoice dated on the start and one dated on the end of the range: both
\* are counted
C23_Witness ==
    /\ call.op = "get_chiffre_affaires"
    /\ Bound(call.date_debut) = 1
    /\ Bound(call.date_fin) = MaxDay
    /\ Len(account_move) = 2
    /\ account_move[1].invoice_date = Bound(call.date_debut)
    /\ account_move[2].invoice_date = Bound(call.date_fin)
    /\ ret.value = 200

\* a cost entry dated on the only day of the range
C23_WitnessEntries ==
    /\ call.op = "_get_cout_salarial_projet"
    /\ Bound(call.date_debut) = MaxDay
    /\ Bound(call.date_fin) = MaxDay
    /\ \E i \in DOMAIN account_analytic_line :
          account_analytic_line[i].date = MaxDay
    /\ ret.value >= 500


\* ------------------------------------------- project summaries (SpecProjets)
\* the three projects of the dashboard with some cost entries, the project
\* table missing or failing, and project tables around the limit of the query
InitProjets ==
    \/ \E ts \in SeqsUpTo(StaffEntries, 1) :
          \/ InitStore(<<>>, ts, BaseAccounts, BaseProjects, Models, FullSchema, {})
          \/ InitStore(<<>>, ts, BaseAccounts, BaseProjects,
                       Models \ {"project.project"}, FullSchema, {})
          \/ InitStore(<<>>, ts, BaseAccounts, BaseProjects,
                       Models, FullSchema, {"project.project"})
    \/ \E n \in {ProjectLimit - 1, ProjectLimit, ProjectLimit + 1,
                 ProjectLimit + MaxRecs} :
          InitStore(<<>>, <<>>, BaseAccounts,
                    [i \in 1..n |-> Projet(i, "P", TRUE, None, 1, MaxDay, "on_track")],
                    Models, FullSchema, {})

\* the projects whose summary can be made to fail
FailingSets == SUBSET {1, 2}

NextProjets ==
    \/ \E dd \in RawDates, df \in RawDates, failing \in FailingSets :
          GetProjetsDataFailing(dd, df, failing)
    \/ Respond

SpecProjets == InitProjets /\ [][NextProjets]_vars

\* ---------------------------------------------------------------- C24
\* the project is active and its own dates lie within the requested range
InScope(projet) ==
    /\ projet.active
    /\ Bound(call.date_debut) # None
          => (projet.date_start # None /\ projet.date_start >= Bound(call.date_debut))
    /\ Bound(call.date_fin) # None
          => (projet.date # None /\ projet.date <= Bound(call.date_fin))

\* the ids of the projects in scope, in the order of the project query
ScopeIds ==
    LET scope == SelectSeq(project_project, InScope)
    IN  [i \in 1..Len(scope) |-> scope[i].id]

\* the project query of the current request succeeds
ProjetsFound ==
    /\ call.op = "get_projets_data"
    /\ "project.project" \in env
    /\ "project.project" \notin broken

\* C24: when the project query does not fail, get_projets_data returns one
\* summary per active project in scope: every entry is of an active project
\* that matches the date filter, no inactive project and no project id twice,
\* in the order of the project query (the first 500 of them).
C24_OneSummaryPerProject ==
    ProjetsFound =>
        LET ids == [k \in 1..Len(ret.value) |-> ret.value[k].id]
        IN  /\ Len(ids) <= Len(ScopeIds)
            /\ ids = SubSeq(ScopeIds, 1, Len(ids))
            /\ Len(ids) < Len(ScopeIds) => Len(ids) = 500
            /\ Cardinality({ids[k] : k \in 1..Len(ids)}) = Len(ids)

\* the date filter leaves one of the two active projects out, the archived
\* project is not listed
C24_Witness ==
    /\ ProjetsFound
    /\ Len(project_project) = 3
    /\ ~project_project[3].active
    /\ Bound(call.date_debut) = MaxDay
    /\ Len(ret.value) = 1
    /\ ret.value[1].id = 2

\* ---------------------------------------------------------------- C25
\* C25: the projects list of get_projets_data never has more than 500
\* entries, however many projects the store holds.
C25_AtMost500Projects ==
    call.op = "get_projets_data" => Len(ret.value) <= 500

\* more than 500 active projects in scope, 500 of them listed
C25_Witness ==
    /\ call.op = "get_projets_data"
    /\ Len(project_project) > 500
    /\ Len(ScopeIds) > 500
    /\ Len(ret.value) = 500
    /\ ret.value[500].id = 500

\* ---------------------------------------------------------------- C28
\* C28: in get_projets_data a failure while the summary of one project is
\* built puts a placeholder (ca 0, nb_personnes 0, heures 0, stage 'Erreur')
\* at the position of that project only; the other entries are what they are
\* without failure and the list is as long as the projects found.
C28_FailureOfOneProject ==
    ProjetsFound =>
        LET alone == get_projets_data(call.date_debut, call.date_fin).value
        IN  /\ Len(ret.value) = Len(alone)
            /\ \A k \in 1..Len(alone) :
                  IF alone[k].id \in call.fault
                  THEN /\ ret.value[k].id = alone[k].id
                       /\ ret.value[k].name = alone[k].name
                       /\ ret.value[k].ca = 0
                       /\ ret.value[k].nb_personnes = 0
                       /\ ret.value[k].heures = 0
                       /\ ret.value[k].stage = "Erreur"
                  ELSE ret.value[k] = alone[k]

\* the summary of project 1 fails, project 2 keeps its head count and hours
C28_Witness ==
    /\ ProjetsFound
    /\ call.fault = {1}
    /\ Len(ret.value) = 2
    /\ ret.value[1].stage = "Erreur"
    /\ ret.value[2].stage = "En danger"
    /\ ret.value[2].nb_personnes = 1
    /\ ret.value[2].heures > 0


C27_NonNegativeFigures ==
    /\ call.op \in {"get_chiffre_affaires", "_get_cout_salarial_projet",
                    "_get_cout_administratif"}
          => ret.value >= 0
    /\ call.op = "get_marge_salariale_projet"
          => /\ ret.value.cout_salarial >= 0
             /\ ret.value.marge <= ret.value.revenus
             /\ ret.value.taux_marge <= 10000
    /\ call.op = "get_dashboard_data"
          => /\ ret.value.chiffre_affaires >= 0
             /\ ret.value.marge_administrative.ca_total >= 0
             /\ ret.value.marge_administrative.cout_admin >= 0
             /\ ret.value.marge_administrative.marge_admin
                   <= ret.value.marge_administrative.ca_total
             /\ ret.value.marge_administrative.taux_marge_admin <= 10000

\* a project with a negative revenue and a cost: the margin is below the
\* revenue
C27_Witness ==
    /\ call.op = "get_marge_salariale_projet"
    /\ ret.value.revenus < 0
    /\ ret.value.cout_salarial > 0
    /\ ret.value.marge < ret.value.revenus

\* a portfolio with revenue and an administrative cost
C27_WitnessAdmin ==
    /\ call.op = "get_dashboard_data"
    /\ ret.value.marge_administrative.ca_total > 0
    /\ ret.value.marge_administrative.cout_admin > 0


\* ------------------------------------------- controller helpers (SpecController)
InitController ==
    \E absent \in SUBSET {"dashboard.projet", "project.project"} :
       InitStore(<<>>, <<>>, BaseAccounts, BaseProjects, Models \ absent,
                 FullSchema, {})

\* no such key (a choice of the inputs below, not a Python value)
Absent == [type |-> "absent"]

\* the dict of the keys that are given a value
DictOf(slots) ==
    PyDict([k \in {key \in DOMAIN slots : slots[key] # Absent} |-> slots[k]])

\* values of a numeric field: None, zero, numbers, texts
FieldValues == {PyNone, PyNum(0), PyNum(7), PyStr("abc")}

\* values that are no dict
NonDicts == {PyNone, PyList(<<>>)}

\* dicts of one or all of the keys, the keys given the same value
SubDicts(keys, first) ==
    {DictOf([k \in keys |-> IF k \in given THEN v ELSE Absent]) :
        given \in {{first}, keys}, v \in FieldValues}

\* inputs of _ensure_valid_response
ResponseInputs ==
    NonDicts \cup
    {DictOf([chiffre_affaires |-> ca, projets |-> projets,
             marge_administrative |-> marge, budget_comparison |-> budget,
             error |-> error]) :
        ca \in FieldValues \cup {Absent},
        projets \in {Absent, PyNone, PyNum(7), PyList(<<>>),
                     PyList(<<PyDict(<<>>)>>)},
        marge \in SubDicts(MargeAdminKeys, "ca_total")
                     \cup NonDicts \cup {Absent, PyDict(<<>>)},
        budget \in SubDicts(BudgetKeys, "budget_total")
                     \cup NonDicts \cup {Absent, PyDict(<<>>)},
        error \in {Absent, PyStr("Erreur serveur")}}

\* inputs of _ensure_valid_marge
MargeInputs ==
    NonDicts \cup
    {DictOf(slots) : slots \in [MargeKeys -> FieldValues \cup {Absent}]}

NextController ==
    \/ \E data \in ResponseInputs : EnsureValidResponse(data)
    \/ \E data \in MargeInputs : EnsureValidMarge(data)
    \/ HealthCheck
    \/ \E fails \in BOOLEAN : CheckDatabase(fails)
    \/ CheckModels
    \/ \E denied \in BOOLEAN : CheckPermissions(denied)
    \/ \E fault \in BOOLEAN : CheckCalculations(fault)
    \/ Respond

SpecController == InitController /\ [][NextController]_vars

\* ---------------------------------------------------------------- C29
\* healthy < degraded < unhealthy
HealthRank(status) ==
    CASE status = "healthy" -> 0
      [] status = "degraded" -> 1
      [] status = "unhealthy" -> 2

HealthCheckRuns == call.op = "health_check"

\* C29: in health_check the status never improves from one check to the next;
\* when a required model is missing the final status is 'unhealthy', and a
\* failed check leaves the final status different from 'healthy'
C29_StatusNeverImproves ==
    /\ [][(HealthCheckRuns /\ HealthCheckRuns')
             => HealthRank(ret'.value.status) >= HealthRank(ret.value.status)]_vars
    /\ [](HealthCheckRuns /\ call.pc = "return"
             => /\ (\E i \in 1..Len(required_models) :
                       required_models[i] \notin env)
                   => ret.value.status = "unhealthy"
                /\ (\E c \in DOMAIN ret.value.checks :
                       ret.value.checks[c] # "ok")
                   => ret.value.status # "healthy")


\* ---------------------------------------------------------------- C30
\* the field is a number, or it is the input's own field, kept as it was
NumberOrKept(field, input, key) ==
    \/ field.type = "int"
    \/ key \in DOMAIN input /\ field = input[key] /\ PyTruthy(field)

\* the dict has exactly the keys, none is None, and each is a number unless
\* the input had a non-empty value of another type there
ValidFields(dict, keys, input) ==
    /\ dict.type = "dict"
    /\ DOMAIN dict.d = keys
    /\ \A k \in keys : dict.d[k] # PyNone /\ NumberOrKept(dict.d[k], input, k)

====
